---- MODULE Spec2Model ----
\* Model of the Terraform text-editing engine of vydev-cli
\* (src/deployment_migration/infrastructure/terraform_modifier.py,
\* class RegexTerraformModifier).
\*
\* A configuration text is a sequence of tokens.  A token stands for a run of
\* characters that no regular expression of the engine can split: a keyword
\* ("module", "source"), an identifier, a punctuation character or one
\* whitespace character.  Concatenating the tokens of a text gives the text of
\* the .tf file.
EXTENDS Integers, Sequences, FiniteSets, TLC

\* text  : the content of the configuration file main.tf
\* prev  : its content before the last editing operation
\* op    : the last editing operation and its arguments
\* res   : how that operation ended ("ok", or the exception it raised)
\* found : the last find_module query on the current text and its answer
\* steps : the number of editing operations applied
\* folder: the files of a Terraform folder, for the operations that scan a
\*         folder and for the application layer
\* calls : the calls the application layer made to its file handler
VARIABLES text, prev, op, res, found, steps, folder, calls

vars == <<text, prev, op, res, found, steps, folder, calls>>

\* ------------------------------------------------------------------------
\* Bounds of the model
\* ------------------------------------------------------------------------
MaxBlocks == 2
MaxSteps == 1

\* ------------------------------------------------------------------------
\* Characters and character classes
\* ------------------------------------------------------------------------
Q == "\""
NL == "\n"
SP == " "

\* the class \s of Python's re module
IsSpace(c) == c \in {SP, NL, "\t"}

\* the literal `?ref=` of the source patterns
RefMark == <<"?", "ref", "=">>

\* ------------------------------------------------------------------------
\* String primitives
\* ------------------------------------------------------------------------
\* str[i:j+1] with 1-based inclusive indices; empty when j < i
Slice(t, i, j) == IF j < i THEN <<>> ELSE SubSeq(t, i, j)

\* str.startswith(p, i-1)
StartsWithAt(t, i, p) ==
    /\ i >= 1
    /\ i + Len(p) - 1 <= Len(t)
    /\ \A k \in 1..Len(p) : t[i + k - 1] = p[k]

\* the value of a statement that is evaluated once and then named: the one
\* element of the set of its values
Only(values) == CHOOSE v \in values : TRUE

\* the least element of a set of indices, 0 for the empty set: where a
\* left-to-right scan stops
Least(S) == IF S = {} THEN 0 ELSE CHOOSE k \in S : \A m \in S : k <= m

\* str.find(c, i-1) for a single character c: first index >= i, 0 when absent
Find(t, c, i) == Least({k \in i..Len(t) : t[k] = c})

\* str[-1] of a string that is not empty
Last(t) == t[Len(t)]

\* `c in str`
Contains(t, c) == Find(t, c, 1) # 0

\* end of a greedy \s* started at i: the first index >= i that holds no space
RECURSIVE SkipSpace(_, _)
SkipSpace(t, i) ==
    IF i > Len(t) THEN i
    ELSE IF IsSpace(t[i]) THEN SkipSpace(t, i + 1)
    ELSE i

\* str.split("?")[0]
SplitQuery(s) ==
    LET q == Find(s, "?", 1)
    IN  IF q = 0 THEN s ELSE Slice(s, 1, q - 1)

\* str.replace(old, new): every non-overlapping occurrence, left to right
RECURSIVE ReplaceFrom(_, _, _, _)
ReplaceFrom(t, old, new, i) ==
    LET k == Least({j \in i..Len(t) : StartsWithAt(t, j, old)})
    IN  IF k = 0 THEN Slice(t, i, Len(t))
        ELSE Slice(t, i, k - 1) \o new \o ReplaceFrom(t, old, new, k + Len(old))

Replace(t, old, new) ==
    IF old = <<>> THEN t ELSE ReplaceFrom(t, old, new, 1)

\* ------------------------------------------------------------------------
\* Block Locator: bracket counting
\* ------------------------------------------------------------------------
\* the last closer of the text (str.rfind), whatever it closes
LastCloser(t, i, depth, open, close) ==
    LET S == {k \in i..Len(t) : t[k] = close}
    IN  IF S = {} THEN 0 ELSE CHOOSE k \in S : \A m \in S : m <= k

\* the loop `for i in range(start_pos, len(text))` with bracket_count: the
\* index of the closer that brings the depth back to zero, 0 (the code's -1)
\* when the text ends first; the loop is stepped from one bracket to the next
RECURSIVE CountBrackets(_, _, _, _, _)
CountBrackets(t, i, depth, open, close) ==
    LET k == Least({j \in i..Len(t) : t[j] \in {open, close}})
    IN  IF k = 0 THEN 0
        ELSE IF t[k] = open THEN CountBrackets(t, k + 1, depth + 1, open, close)
        ELSE IF depth - 1 = 0 THEN k
        ELSE CountBrackets(t, k + 1, depth - 1, open, close)

\* the first closing brace after the opening one, nesting ignored
FirstClosingBrace(t, start_pos) == Find(t, "}", start_pos)

MatchingBrace(t, start_pos) == CountBrackets(t, start_pos, 0, "{", "}")

\* ------------------------------------------------------------------------
\* Regular-expression fragments
\* ------------------------------------------------------------------------
\* module\s+"([^"]+)"\s+\{  anchored at i.  brace = 0 when there is no match,
\* else the index of the opening brace; the name is text[nameFrom..nameTo]
HeaderAt(t, i) ==
    LET NoMatch == [brace |-> 0, nameFrom |-> 0, nameTo |-> 0]
        w  == SkipSpace(t, i + 1)
        q2 == Find(t, Q, w + 1)
        b  == SkipSpace(t, q2 + 1)
    IN  IF i > Len(t) \/ t[i] # "module" THEN NoMatch
        ELSE IF w = i + 1 \/ w > Len(t) \/ t[w] # Q THEN NoMatch
        ELSE IF q2 = 0 \/ q2 = w + 1 THEN NoMatch
        ELSE IF b = q2 + 1 \/ b > Len(t) \/ t[b] # "{" THEN NoMatch
        ELSE [brace |-> b, nameFrom |-> w + 1, nameTo |-> q2 - 1]

\* source\s[+*]=\s[+*]"(BASE(?:\?ref=([^"]*))?)"  anchored at j; minSpace is 1
\* for \s+ and 0 for \s*.  The value is text[valFrom..valTo], `last` the index
\* of the closing quote, verFrom the index after `?ref=` (0 without suffix).
SourceAt(t, j, base, minSpace) ==
    LET NoMatch == [ok |-> FALSE, valFrom |-> 0, valTo |-> 0, last |-> 0, verFrom |-> 0]
        e  == SkipSpace(t, j + 1)
        w  == SkipSpace(t, e + 1)
        a  == w + 1 + Len(base)
        q2 == Find(t, Q, a + 3)
    IN  IF j > Len(t) \/ t[j] # "source" THEN NoMatch
        ELSE IF e - (j + 1) < minSpace \/ e > Len(t) \/ t[e] # "=" THEN NoMatch
        ELSE IF w - (e + 1) < minSpace \/ w > Len(t) \/ t[w] # Q THEN NoMatch
        ELSE IF ~StartsWithAt(t, w + 1, base) THEN NoMatch
        ELSE IF StartsWithAt(t, a, RefMark) /\ q2 # 0
             THEN [ok |-> TRUE, valFrom |-> w + 1, valTo |-> q2 - 1, last |-> q2,
                   verFrom |-> a + 3]
        ELSE IF a <= Len(t) /\ t[a] = Q
             THEN [ok |-> TRUE, valFrom |-> w + 1, valTo |-> a - 1, last |-> a,
                   verFrom |-> 0]
        ELSE NoMatch

\* ------------------------------------------------------------------------
\* update_module_versions
\* ------------------------------------------------------------------------
\* the lazy [^}]*? between the opening brace and `source`: the first index
\* j >= from at which the source attribute matches and a closing brace
\* follows it, no `}` being skipped on the way; 0 when there is none
LazySourceFrom(t, j, base, minSpace) ==
    LET stop == Find(t, "}", j)
    IN  IF stop = 0 THEN 0
        ELSE Least({k \in j..(stop - 1) :
                      /\ SourceAt(t, k, base, minSpace).ok
                      /\ Find(t, "}", SourceAt(t, k, base, minSpace).last + 1) # 0})

\* module\s+"[^"]+"\s+{[^}]*?source\s+\=\s+"(BASE(?:\?ref=[^"]*)?)"[^}]*?}
\* anchored at i: the match is text[from..to], group 1 is text[valFrom..valTo]
ModulePatternAt(t, i, base) ==
    LET h == HeaderAt(t, i)
        j == LazySourceFrom(t, h.brace + 1, base, 1)
        s == SourceAt(t, j, base, 1)
    IN  IF h.brace = 0 \/ j = 0
        THEN [ok |-> FALSE, from |-> 0, to |-> 0, valFrom |-> 0, valTo |-> 0]
        ELSE [ok |-> TRUE, from |-> i, to |-> Find(t, "}", s.last + 1),
              valFrom |-> s.valFrom, valTo |-> s.valTo]

\* re.finditer(module_pattern, text, re.DOTALL): the matches from index i on,
\* left to right, each search resuming after the previous match
RECURSIVE ModuleMatches(_, _, _)
ModuleMatches(t, i, base) ==
    LET k == Least({j \in i..Len(t) : ModulePatternAt(t, j, base).ok})
        m == ModulePatternAt(t, k, base)
    IN  IF k = 0 THEN <<>>
        ELSE <<m>> \o ModuleMatches(t, m.to + 1, base)

\* (source\s+\=\s+)"CURRENT" anchored at i: index of the opening quote, else 0
SourceLiteralAt(t, i, current) ==
    LET e == SkipSpace(t, i + 1)
        w == SkipSpace(t, e + 1)
    IN  IF i > Len(t) \/ t[i] # "source" THEN 0
        ELSE IF e = i + 1 \/ e > Len(t) \/ t[e] # "=" THEN 0
        ELSE IF w = e + 1 \/ w > Len(t) \/ t[w] # Q THEN 0
        ELSE IF StartsWithAt(t, w + 1, current \o <<Q>>) THEN w
        ELSE 0

\* SubSource with group 1 dropped from the replacement: the attribute is
\* written afresh as `source = "<new_source>"`
RECURSIVE SubSourceReformatted(_, _, _, _)
SubSourceReformatted(t, i, current, new_source) ==
    LET k == Least({j \in i..Len(t) : SourceLiteralAt(t, j, current) # 0})
        w == SourceLiteralAt(t, k, current)
    IN  IF k = 0 THEN Slice(t, i, Len(t))
        ELSE Slice(t, i, k - 1) \o <<"source", SP, "=", SP, Q>> \o new_source \o <<Q>>
             \o SubSourceReformatted(t, w + Len(current) + 2, current, new_source)

\* SubSource that merges instead of overwriting: the query suffix of the
\* current source is kept behind the new source
RECURSIVE SubSourceMerged(_, _, _, _)
SubSourceMerged(t, i, current, new_source) ==
    LET k == Least({j \in i..Len(t) : SourceLiteralAt(t, j, current) # 0})
        w == SourceLiteralAt(t, k, current)
    IN  IF k = 0 THEN Slice(t, i, Len(t))
        ELSE Slice(t, i, w - 1) \o <<Q>> \o new_source
             \o Slice(current, Len(SplitQuery(current)) + 1, Len(current))
             \o <<Q>>
             \o SubSourceMerged(t, w + Len(current) + 2, current, new_source)

\* re.sub(source_pattern, '\1"<new_source>"', module_text)
RECURSIVE SubSource(_, _, _, _)
SubSource(t, i, current, new_source) ==
    LET k == Least({j \in i..Len(t) : SourceLiteralAt(t, j, current) # 0})
        w == SourceLiteralAt(t, k, current)
    IN  IF k = 0 THEN Slice(t, i, Len(t))
        ELSE Slice(t, i, w - 1) \o <<Q>> \o new_source \o <<Q>>
             \o SubSource(t, w + Len(current) + 2, current, new_source)

\* new_source = f"{base_source}?ref={new_version}"
NewSource(base_source, new_version) == base_source \o RefMark \o new_version

\* the inner loop over the matches found in the text as it was when the
\* loop over this target began (`original`); `config` is modified_config
RECURSIVE ApplyMatches(_, _, _, _, _)
ApplyMatches(config, original, matches, base_source, new_version) ==
    IF matches = <<>> THEN config
    ELSE LET m == Head(matches)
             module_text == Slice(original, m.from, m.to)
             current_source == Slice(original, m.valFrom, m.valTo)
             updated_module ==
                 SubSource(module_text, 1, current_source,
                           NewSource(base_source, new_version))
         IN  ApplyMatches(Replace(config, module_text, updated_module),
                          original, Tail(matches), base_source, new_version)

\* one iteration of `for module_source, new_version in target_modules.items()`
UpdateOneTarget(config, module_source, new_version) ==
    LET base_source == SplitQuery(module_source)
    IN  ApplyMatches(config, config, ModuleMatches(config, 1, base_source),
                     base_source, new_version)

\* update_module_versions in which every target starts again from the text
\* it was given, so that only the last target's rewrite survives
LastTargetOnly(terraform_config, target_modules) ==
    IF target_modules = <<>> THEN terraform_config
    ELSE UpdateOneTarget(terraform_config,
                         target_modules[Len(target_modules)].source,
                         target_modules[Len(target_modules)].version)

\* update_module_versions(terraform_config, target_modules); target_modules
\* is the dict in insertion order, a sequence of [source, version] entries
RECURSIVE update_module_versions(_, _)
update_module_versions(terraform_config, target_modules) ==
    IF target_modules = <<>> THEN terraform_config
    ELSE update_module_versions(
             UpdateOneTarget(terraform_config, Head(target_modules).source,
                             Head(target_modules).version),
             Tail(target_modules))

\* ------------------------------------------------------------------------
\* Variable values and their serialization
\* ------------------------------------------------------------------------
\* a value of the variables dict: [type |-> "str", val |-> <characters>],
\* [type |-> "bool", val |-> BOOLEAN], [type |-> "int", val |-> Int] or
\* [type |-> "dict"]; the dict itself is a sequence of <<name, value>> pairs
\* in insertion order
IsReference(val) == val # <<>> /\ val[1] \in {"module.", "var."}

\* str(var_value) without .lower()
BoolLiteralCapitalised(b) == IF b THEN "True" ELSE "False"

\* str(var_value).lower() for a bool
BoolLiteral(b) == IF b THEN "true" ELSE "false"

HasDict(variables) == \E k \in 1..Len(variables) : variables[k][2].type = "dict"

\* "\n  {var_name} = {var_value}" as add_module writes it
ModuleAssignment(var_name, var_value) ==
    <<NL, SP, SP>> \o var_name \o <<SP, "=", SP>>
    \o (CASE var_value.type = "str" ->
               IF IsReference(var_value.val) THEN var_value.val
               ELSE <<Q>> \o var_value.val \o <<Q>>
          [] var_value.type = "bool" -> <<BoolLiteral(var_value.val)>>
          [] OTHER -> <<ToString(var_value.val)>>)

RECURSIVE ModuleAssignments(_)
ModuleAssignments(variables) ==
    IF variables = <<>> THEN <<>>
    ELSE ModuleAssignment(Head(variables)[1], Head(variables)[2])
         \o ModuleAssignments(Tail(variables))

\* "\n  {var_name} = {var_value}" as add_variable writes it
VariableAssignment(var_name, var_value) ==
    <<NL, SP, SP>> \o var_name \o <<SP, "=", SP>>
    \o (CASE var_value.type = "str" -> <<Q>> \o var_value.val \o <<Q>>
          [] var_value.type = "bool" -> <<BoolLiteral(var_value.val)>>
          [] OTHER -> <<ToString(var_value.val)>>)

RECURSIVE VariableAssignments(_)
VariableAssignments(variables) ==
    IF variables = <<>> THEN <<>>
    ELSE VariableAssignment(Head(variables)[1], Head(variables)[2])
         \o VariableAssignments(Tail(variables))

\* ------------------------------------------------------------------------
\* add_module
\* ------------------------------------------------------------------------
NotImplemented == [status |-> "NotImplementedError"]
Returned(t) == [status |-> "ok", text |-> t]

add_module(terraform_config, name, source, version, variables) ==
    LET source_with_version ==
            IF version = <<>> THEN source ELSE source \o RefMark \o version
        module_block ==
            <<"module", SP, Q>> \o name \o <<Q, SP, "{", NL, SP, SP,
              "source", SP, "=", SP, Q>> \o source_with_version \o <<Q>>
            \o ModuleAssignments(variables) \o <<NL, "}", NL>>
    IN  IF HasDict(variables) THEN NotImplemented
        ELSE Returned(terraform_config \o <<NL>> \o module_block)

\* ------------------------------------------------------------------------
\* has_module and find_module
\* ------------------------------------------------------------------------
\* re.search(source\s*=\s*"(BASE(?:\?ref=[^"]*)?)", content)
HasSourceIn(content, base) ==
    \E j \in 1..Len(content) : SourceAt(content, j, base, 0).ok

\* files: the .tf files under the folder in glob order, each a record
\* [file_path, content]
has_module(module_source, files) ==
    \E f \in 1..Len(files) : HasSourceIn(files[f].content, SplitQuery(module_source))

\* FindPatternAt that takes the version from group 3 (the whole source)
\* instead of group 4
FindPatternGroup3(t, i, base) ==
    LET h == HeaderAt(t, i)
        j == LazySourceFrom(t, h.brace + 1, base, 0)
        a == SourceAt(t, j, base, 0)
    IN  IF h.brace = 0 \/ j = 0 THEN [ok |-> FALSE]
        ELSE [ok |-> TRUE,
              name |-> Slice(t, h.nameFrom, h.nameTo),
              source |-> Slice(t, a.valFrom, a.valTo),
              version |-> Slice(t, a.valFrom, a.valTo),
              module_block |-> Slice(t, SkipSpace(t, h.brace + 1),
                                     Find(t, "}", a.last + 1) - 1)]

\* module\s+"([^"]+)"\s+{\s*([^}]*?source\s*=\s*"(BASE(?:\?ref=([^"]*))?)"[^}]*?)}
\* anchored at i
FindPatternAt(t, i, base) ==
    LET h == HeaderAt(t, i)
        j == LazySourceFrom(t, h.brace + 1, base, 0)
        a == SourceAt(t, j, base, 0)
    IN  IF h.brace = 0 \/ j = 0 THEN [ok |-> FALSE]
        ELSE [ok |-> TRUE,
              name |-> Slice(t, h.nameFrom, h.nameTo),
              source |-> Slice(t, a.valFrom, a.valTo),
              version |-> IF a.verFrom = 0 THEN <<>>
                          ELSE Slice(t, a.verFrom, a.valTo),
              module_block |-> Slice(t, SkipSpace(t, h.brace + 1),
                                     Find(t, "}", a.last + 1) - 1)]

\* the first match of re.finditer(module_pattern, content, re.DOTALL)
FirstModuleMatch(t, i, base) ==
    Only({(IF k = 0 THEN [ok |-> FALSE] ELSE FindPatternAt(t, k, base)) :
          k \in {Least({j \in i..Len(t) : FindPatternAt(t, j, base).ok})}})

NotFound == [found |-> FALSE]

\* the \w+ that a word of the model's texts begins with, "" when it begins
\* with another character; a word not listed is made of \w characters only
WordOf(w) ==
    CASE w \in {Q, SP, NL, "\t", "{", "}", "[", "]", "=", "?", ".", "$", "#",
                "/sub", "/", "/*"} -> ""
      [] w = "var." -> "var"
      [] w = "module." -> "module"
      [] w = "local.image" -> "local"
      [] w = "1.0.0" -> "1"
      [] w = "example/module" -> "example"
      [] OTHER -> w

\* var_pattern (\w+)\s*=\s*(?:"([^"]*)"|(\w+)) anchored at the word at j: the
\* value is the text between the quotes, or else the \w+ the value begins with
VarPatternAt(c, j) ==
    LET e  == SkipSpace(c, j + 1)
        v  == SkipSpace(c, e + 1)
        q2 == Find(c, Q, v + 1)
    IN  IF j > Len(c) \/ WordOf(c[j]) # c[j] THEN [ok |-> FALSE]
        ELSE IF e > Len(c) \/ c[e] # "=" \/ v > Len(c) THEN [ok |-> FALSE]
        ELSE IF c[v] = Q /\ q2 # 0
             THEN [ok |-> TRUE, var_name |-> c[j],
                   var_value |-> Slice(c, v + 1, q2 - 1), last |-> q2]
        ELSE IF WordOf(c[v]) # ""
             THEN [ok |-> TRUE, var_name |-> c[j],
                   var_value |-> <<WordOf(c[v])>>, last |-> v]
        ELSE [ok |-> FALSE]

\* re.finditer(var_pattern, module_block) from index i on
RECURSIVE VarMatches(_, _)
VarMatches(c, i) ==
    LET k == Least({j \in i..Len(c) : VarPatternAt(c, j).ok})
    IN  IF k = 0 THEN <<>>
        ELSE <<VarPatternAt(c, k)>> \o VarMatches(c, VarPatternAt(c, k).last + 1)

\* the variables dictionary: the value of the last match of each name, the
\* source attribute left out
Variables(module_block) ==
    LET ms == VarMatches(module_block, 1)
        kept == {k \in 1..Len(ms) : ms[k].var_name # "source"}
    IN  [n \in {ms[k].var_name : k \in kept} |->
            ms[CHOOSE k \in kept :
                  /\ ms[k].var_name = n
                  /\ \A l \in kept : ms[l].var_name = n => l <= k].var_value]

\* find_module: the reference of the first match in the first file that has
\* one; has_version is FALSE where the code returns version None
RECURSIVE FindInFiles(_, _, _)
FindInFiles(files, f, base) ==
    IF f > Len(files) THEN NotFound
    ELSE Only({(IF m.ok
                THEN [found |-> TRUE, name |-> m.name, source |-> m.source,
                      has_version |-> m.version # <<>>, version |-> m.version,
                      variables |-> Variables(m.module_block),
                      file_path |-> files[f].file_path]
                ELSE FindInFiles(files, f + 1, base)) :
               m \in {FirstModuleMatch(files[f].content, 1, base)}})

find_module(module_source, files) ==
    FindInFiles(files, 1, SplitQuery(module_source))

\* ------------------------------------------------------------------------
\* add_variable
\* ------------------------------------------------------------------------
\* module\s+"TARGET"\s+{ anchored at i: index of the opening brace, else 0
NamedHeaderAt(t, i, target) ==
    LET w == SkipSpace(t, i + 1)
        c == w + 1 + Len(target)
        b == SkipSpace(t, c + 1)
    IN  IF i > Len(t) \/ t[i] # "module" THEN 0
        ELSE IF w = i + 1 \/ w > Len(t) \/ t[w] # Q THEN 0
        ELSE IF ~StartsWithAt(t, w + 1, target \o <<Q>>) THEN 0
        ELSE IF b = c + 1 \/ b > Len(t) \/ t[b] # "{" THEN 0
        ELSE b

\* re.search(module_start_pattern, text): start of the first match, else 0
SearchNamedHeader(t, i, target) ==
    Least({j \in i..Len(t) : NamedHeaderAt(t, j, target) # 0})

\* a NotFoundError whose message does not name the module
ModuleNotFoundUnnamed(target) ==
    [status |-> "NotFoundError", message |-> "Could not find module", module |-> <<>>]

ModuleNotFound(target) ==
    [status |-> "NotFoundError", message |-> "Could not find module", module |-> target]
BraceNotFound(target) ==
    [status |-> "NotFoundError",
     message |-> "Could not find matching closing brace for module", module |-> target]

add_variable(terraform_config, target_module, variables) ==
    LET module_start == SearchNamedHeader(terraform_config, 1, target_module)
        start_pos == NamedHeaderAt(terraform_config, module_start, target_module)
        end_pos == MatchingBrace(terraform_config, start_pos)
        module_content == Slice(terraform_config, start_pos + 1, end_pos - 1)
        modified_module ==
            Slice(terraform_config, module_start, start_pos)
            \o module_content \o VariableAssignments(variables) \o <<NL>>
            \o Slice(terraform_config, end_pos, end_pos)
        original_module == Slice(terraform_config, module_start, end_pos)
    IN  IF module_start = 0 THEN ModuleNotFound(target_module)
        ELSE IF end_pos = 0 THEN BraceNotFound(target_module)
        ELSE IF HasDict(variables) THEN NotImplemented
        ELSE Returned(Replace(terraform_config, original_module, modified_module))

\* ------------------------------------------------------------------------
\* add_force_new_deployment_to_ecs_module
\* ------------------------------------------------------------------------
\* target_module_source
EcsSource == <<"github.com/nsbno/terraform-aws-ecs-service">>

\* re.search(source\s*=\s*"ECS(?:\?ref=[^"]*)?, content): the pattern ends
\* before the closing quote
SourcePrefixAt(t, j, base) ==
    LET e == SkipSpace(t, j + 1)
        w == SkipSpace(t, e + 1)
    IN  /\ j <= Len(t) /\ t[j] = "source"
        /\ e <= Len(t) /\ t[e] = "="
        /\ w <= Len(t) /\ t[w] = Q
        /\ StartsWithAt(t, w + 1, base)

IsEcsContent(content) ==
    \E j \in 1..Len(content) : SourcePrefixAt(content, j, EcsSource)

NoEcsModule ==
    [status |-> "NotFoundError", message |-> "No ECS module was found"]

ForceNewDeployment == <<<< <<"force_new_deployment">>, [type |-> "bool", val |-> TRUE] >>>>

\* the loop over re.finditer(module_start_pattern, text) from index i on
RECURSIVE ForceFrom(_, _)
ForceFrom(t, i) ==
    LET k == Least({j \in i..Len(t) : HeaderAt(t, j).brace # 0})
        h == HeaderAt(t, k)
        end_pos == MatchingBrace(t, h.brace)
        module_content == Slice(t, h.brace + 1, end_pos - 1)
    IN  IF k = 0 THEN NoEcsModule
        ELSE IF end_pos = 0 \/ ~IsEcsContent(module_content)
             THEN ForceFrom(t, h.brace + 1)
        ELSE IF Contains(module_content, "force_new_deployment")
             THEN Returned(t)
        ELSE add_variable(t, Slice(t, h.nameFrom, h.nameTo), ForceNewDeployment)

add_force_new_deployment_to_ecs_module(terraform_config) ==
    ForceFrom(terraform_config, 1)

\* ------------------------------------------------------------------------
\* add_test_listener_to_ecs_module
\* ------------------------------------------------------------------------
\* the words of the model's texts that begin with `module`, `resource`, `data`
\* or `provider`: what the lookahead (?=\s*(?:module|resource|data|provider|\Z))
\* accepts, the pattern having no word boundary
KeywordStart ==
    {"module", "resource", "data", "provider", "module.", "datadog_options",
     "datadog_tags"}

\* (?=\s*(?:module|resource|data|provider|\Z)) at index j
BlockAhead(t, j) ==
    LET w == SkipSpace(t, j)
    IN  w > Len(t) \/ t[w] \in KeywordStart

\* module\s+"([^"]+)"\s+{(.*?)}(?=...) at index i, re.DOTALL: the content is
\* the shortest text that ends before a closing brace with a block ahead
ListenerPatternAt(t, i) ==
    LET h == HeaderAt(t, i)
        closer == Least({k \in (h.brace + 1)..Len(t) :
                            t[k] = "}" /\ BlockAhead(t, k + 1)})
    IN  IF h.brace = 0 \/ closer = 0 THEN [ok |-> FALSE]
        ELSE [ok |-> TRUE, from |-> i, to |-> closer,
              name |-> Slice(t, h.nameFrom, h.nameTo),
              content |-> Slice(t, h.brace + 1, closer - 1)]

\* lb_listeners\s*=\s*\[ at index j: the index of the bracket, 0 for no match
LbListenersAt(t, j) ==
    LET e == SkipSpace(t, j + 1)
        b == SkipSpace(t, e + 1)
    IN  IF /\ j <= Len(t) /\ t[j] = "lb_listeners"
           /\ e <= Len(t) /\ t[e] = "="
           /\ b <= Len(t) /\ t[b] = "["
        THEN b ELSE 0

\* a presence test that never finds the attribute
AlreadyPresentNever(module_content) == FALSE

\* "test_listener_arn" in module_content, wherever it stands
AlreadyPresent(module_content) == Contains(module_content, "test_listener_arn")

\* test_listener_line
TestListenerLine(metadata_module_name) ==
    <<NL, SP, SP, SP, SP, SP, SP, "test_listener_arn", SP, "=", SP, "module.">>
    \o metadata_module_name
    \o <<".", "load_balancer", ".", "https_test_listener_arn", NL>>

\* the loop over re.finditer(module_pattern, text, re.DOTALL) from index i on;
\* m is module_match, to go on from m.to + 1 is `continue`
RECURSIVE ListenerFrom(_, _, _)
ListenerFrom(t, i, metadata_module_name) ==
    Only({
      (IF k = 0 THEN Returned(t)
       ELSE Only({
        (IF ~IsEcsContent(m.content) THEN ListenerFrom(t, m.to + 1, metadata_module_name)
         ELSE Only({
          (IF lb_start = 0 \/ AlreadyPresent(m.content)
           THEN ListenerFrom(t, m.to + 1, metadata_module_name)
           ELSE Only({
            (IF end_pos = 0 THEN ListenerFrom(t, m.to + 1, metadata_module_name)
             ELSE Only({Only({
              (IF first_brace = 0 THEN ListenerFrom(t, m.to + 1, metadata_module_name)
               ELSE Returned(Replace(
                        t,
                        Slice(t, m.from, m.to),
                        <<"module", SP, Q>> \o m.name \o <<Q, SP, "{">>
                        \o Replace(m.content, lb_listeners_full,
                                   Slice(lb_listeners_full, 1, first_brace)
                                   \o TestListenerLine(metadata_module_name)
                                   \o Slice(lb_listeners_full, first_brace + 1,
                                            Len(lb_listeners_full)))
                        \o <<"}">>))) :
              first_brace \in {Find(lb_listeners_full, "{", 1)}}) :
            lb_listeners_full \in {Slice(m.content, lb_start, end_pos)}})) :
          end_pos \in {CountBrackets(m.content, LbListenersAt(m.content, lb_start),
                                     0, "[", "]")}})) :
        lb_start \in {Least({j \in 1..Len(m.content) :
                                LbListenersAt(m.content, j) # 0})}})) :
      m \in {ListenerPatternAt(t, k)}})) :
    k \in {Least({j \in i..Len(t) : ListenerPatternAt(t, j).ok})}})

add_test_listener_to_ecs_module(terraform_config, metadata_module_name) ==
    ListenerFrom(terraform_config, 1, metadata_module_name)

\* ------------------------------------------------------------------------
\* remove_vydev_artifact_reference
\* ------------------------------------------------------------------------
\* (?:[^{}]|\{[^{}]*\})*\} from the opening brace at b on: the index of the
\* closing brace, 0 when a group holds a brace of its own or the text ends
RECURSIVE OneLevelClose(_, _)
OneLevelClose(t, b) ==
    LET c1 == Least({k \in (b + 1)..Len(t) : t[k] \in {"{", "}"}})
        c2 == Least({k \in (c1 + 1)..Len(t) : t[k] \in {"{", "}"}})
    IN  IF c1 = 0 THEN 0
        ELSE IF t[c1] = "}" THEN c1
        ELSE IF c2 = 0 \/ t[c2] = "{" THEN 0
        ELSE OneLevelClose(t, c2)

\* vydev_pattern anchored at i:
\* data\s+"vy_artifact_version"\s+"[^"]*"\s+\{(?:[^{}]|\{[^{}]*\})*\}
\* gives the index of the last token of the match, 0 for no match
VydevPatternAt(t, i) ==
    LET w  == SkipSpace(t, i + 1)
        n  == SkipSpace(t, w + 3)
        q2 == Find(t, Q, n + 1)
        b  == SkipSpace(t, q2 + 1)
    IN  IF i > Len(t) \/ t[i] # "data" THEN 0
        ELSE IF w = i + 1 \/ ~StartsWithAt(t, w, <<Q, "vy_artifact_version", Q>>) THEN 0
        ELSE IF n = w + 3 \/ n > Len(t) \/ t[n] # Q \/ q2 = 0 THEN 0
        ELSE IF b = q2 + 1 \/ b > Len(t) \/ t[b] # "{" THEN 0
        ELSE OneLevelClose(t, b)

\* re.sub(vydev_pattern, "", text) from index i on
RECURSIVE RemoveVydevFrom(_, _)
RemoveVydevFrom(t, i) ==
    LET k == Least({j \in i..Len(t) : VydevPatternAt(t, j) # 0})
    IN  IF k = 0 THEN Slice(t, i, Len(t))
        ELSE Slice(t, i, k - 1) \o RemoveVydevFrom(t, VydevPatternAt(t, k) + 1)

remove_vydev_artifact_reference(terraform_config) ==
    Returned(RemoveVydevFrom(terraform_config, 1))

\* ------------------------------------------------------------------------
\* replace_image_tag_on_ecs_module
\* ------------------------------------------------------------------------
\* the words of the model's texts that begin with one of the words of the
\* lookahead (?=\s*(?:module|resource|data|variable|output|locals|provider|\Z))
ImageKeywordStart ==
    KeywordStart \cup {"variable", "output", "locals", "data.vy_ecs_image."}

\* module\s+"([^"]+)"\s+\{(.*?)\}(?=...) at index i, re.DOTALL
ImageModuleAt(t, i) ==
    LET h == HeaderAt(t, i)
        closer == Least({k \in (h.brace + 1)..Len(t) :
                            /\ t[k] = "}"
                            /\ \/ SkipSpace(t, k + 1) > Len(t)
                               \/ t[SkipSpace(t, k + 1)] \in ImageKeywordStart})
    IN  IF h.brace = 0 \/ closer = 0 THEN [ok |-> FALSE]
        ELSE [ok |-> TRUE, from |-> i, to |-> closer,
              name |-> Slice(t, h.nameFrom, h.nameTo),
              content |-> Slice(t, h.brace + 1, closer - 1)]

\* "github.com/nsbno/terraform-aws-ecs-service" not in module_content, negated
MentionsEcs(module_content) == Contains(module_content, EcsSource[1])

\* new_variable
NewImage(vy_ecs_image_data_source_name) ==
    <<NL, SP, SP, SP, SP, "image", SP, "=", SP, "data.vy_ecs_image.">>
    \o vy_ecs_image_data_source_name

\* image_pattern \s+image\s*=\s*(?:"[^"]*"|[^\s\n]+) anchored at i: the index
\* of the last token of the match, 0 for no match
ImagePatternAt(c, i) ==
    LET w == SkipSpace(c, i)
        e == SkipSpace(c, w + 1)
        v == SkipSpace(c, e + 1)
        q2 == Find(c, Q, v + 1)
    IN  IF i > Len(c) \/ w = i \/ w > Len(c) \/ c[w] # "image" THEN 0
        ELSE IF e > Len(c) \/ c[e] # "=" \/ v > Len(c) THEN 0
        ELSE IF c[v] = Q /\ q2 # 0 THEN q2
        ELSE Least({k \in v..Len(c) : k = Len(c) \/ IsSpace(c[k + 1])})

\* re.sub(image_pattern, new_variable, module_content) from index i on
RECURSIVE ReplaceImages(_, _, _)
ReplaceImages(c, i, new_variable) ==
    LET k == Least({j \in i..Len(c) : ImagePatternAt(c, j) # 0})
    IN  IF k = 0 THEN Slice(c, i, Len(c))
        ELSE Slice(c, i, k - 1) \o new_variable
             \o ReplaceImages(c, ImagePatternAt(c, k) + 1, new_variable)

\* replace_image applied to the match m
ReplaceImage(t, m, vy_ecs_image_data_source_name) ==
    IF ~MentionsEcs(m.content) THEN Slice(t, m.from, m.to)
    ELSE <<"module", SP, Q>> \o m.name \o <<Q, SP, "{">>
         \o ReplaceImages(m.content, 1, NewImage(vy_ecs_image_data_source_name))
         \o <<"}">>

\* re.sub(module_pattern, replace_image, text, flags=re.DOTALL) from index i on
RECURSIVE ReplaceModulesFrom(_, _, _)
ReplaceModulesFrom(t, i, vy_ecs_image_data_source_name) ==
    LET k == Least({j \in i..Len(t) : ImageModuleAt(t, j).ok})
        m == ImageModuleAt(t, k)
    IN  IF k = 0 THEN Slice(t, i, Len(t))
        ELSE Slice(t, i, k - 1)
             \o ReplaceImage(t, m, vy_ecs_image_data_source_name)
             \o ReplaceModulesFrom(t, m.to + 1, vy_ecs_image_data_source_name)

replace_image_tag_on_ecs_module(terraform_config, vy_ecs_image_data_source_name) ==
    Returned(ReplaceModulesFrom(terraform_config, 1, vy_ecs_image_data_source_name))

\* ------------------------------------------------------------------------
\* update_spring_boot_service_module
\* ------------------------------------------------------------------------
\* "spring-boot-service" not in module_block, negated
MentionsSpringBoot(module_block) == Contains(module_block, "spring-boot-service")

\* the greatest element of a set of indices, 0 for the empty set
Greatest(S) == IF S = {} THEN 0 ELSE CHOOSE k \in S : \A m \in S : m <= k

\* docker_image_pattern ^[ \t]*docker_image\s*=\s*[^\n]+\n under re.MULTILINE,
\* anchored at i: the index of the newline that ends the match, 0 for no
\* match.  \s*=\s* may cross newlines; when no newline follows the value the
\* last \s* gives blanks back to [^\n]+
DockerImageAt(t, i) ==
    LET j  == Least({k \in i..Len(t) : t[k] \notin {SP, "\t"}})
        e  == SkipSpace(t, j + 1)
        v  == SkipSpace(t, e + 1)
        nl == Find(t, NL, v)
        s  == Greatest({k \in (e + 1)..(v - 1) : t[k] # NL /\ Find(t, NL, k) # 0})
    IN  IF i > Len(t) \/ (i > 1 /\ t[i - 1] # NL) THEN 0
        ELSE IF j = 0 \/ t[j] # "docker_image" THEN 0
        ELSE IF e > Len(t) \/ t[e] # "=" THEN 0
        ELSE IF v <= Len(t) /\ nl # 0 THEN nl
        ELSE IF s # 0 THEN Find(t, NL, s)
        ELSE 0

\* re.sub(docker_image_pattern, "", updated_module, flags=re.MULTILINE) from
\* index i on
RECURSIVE RemoveDockerImage(_, _)
RemoveDockerImage(t, i) ==
    LET k == Least({j \in i..Len(t) : DockerImageAt(t, j) # 0})
    IN  IF k = 0 THEN Slice(t, i, Len(t))
        ELSE Slice(t, i, k - 1) \o RemoveDockerImage(t, DockerImageAt(t, k) + 1)

\* datadog_tags\s*=\s*\{ anchored at j: the index of the brace, 0 for no match
DatadogTagsAt(t, j) ==
    LET e == SkipSpace(t, j + 1)
        b == SkipSpace(t, e + 1)
    IN  IF /\ j <= Len(t) /\ t[j] = "datadog_tags"
           /\ e <= Len(t) /\ t[e] = "="
           /\ b <= Len(t) /\ t[b] = "{"
        THEN b ELSE 0

\* a removal that ends at the first closing brace after datadog_tags = {
RemoveDatadogTagsToFirstBrace(updated_module) ==
    LET datadog_start == Least({j \in 1..Len(updated_module) :
                                  DatadogTagsAt(updated_module, j) # 0})
        brace_start == DatadogTagsAt(updated_module, datadog_start)
        closer == FirstClosingBrace(updated_module, brace_start)
        datadog_end ==
            IF closer < Len(updated_module) /\ updated_module[closer + 1] = NL
            THEN closer + 1 ELSE closer
        line_start ==
            1 + Greatest({k \in 1..(datadog_start - 1) :
                            updated_module[k] \notin {SP, "\t"}})
    IN  IF datadog_start = 0 \/ closer = 0 THEN updated_module
        ELSE Slice(updated_module, 1, line_start - 1)
             \o Slice(updated_module, datadog_end + 1, Len(updated_module))

\* the removal of the datadog_tags block: from the blanks that lead its line
\* to the newline after the brace that closes it
RemoveDatadogTags(updated_module) ==
    LET datadog_start == Least({j \in 1..Len(updated_module) :
                                  DatadogTagsAt(updated_module, j) # 0})
        brace_start == DatadogTagsAt(updated_module, datadog_start)
        closer == MatchingBrace(updated_module, brace_start)
        datadog_end ==
            IF closer < Len(updated_module) /\ updated_module[closer + 1] = NL
            THEN closer + 1 ELSE closer
        line_start ==
            1 + Greatest({k \in 1..(datadog_start - 1) :
                            updated_module[k] \notin {SP, "\t"}})
    IN  IF datadog_start = 0 \/ closer = 0 THEN updated_module
        ELSE Slice(updated_module, 1, line_start - 1)
             \o Slice(updated_module, datadog_end + 1, Len(updated_module))

\* the words of the model's texts that hold `repository_url`
RepositoryUrlWords == {"repository_url", ".repository_url"}

\* "repository_url" not in updated_module, negated
MentionsRepositoryUrl(updated_module) ==
    \E k \in 1..Len(updated_module) : updated_module[k] \in RepositoryUrlWords

\* repository_url_line
RepositoryUrl(ecr_data_source_name) ==
    <<SP, SP, "repository_url", SP, "=", SP, "data.aws_ecr_repository.">>
    \o ecr_data_source_name \o <<".repository_url", NL>>

\* the line is put before the last closing brace (str.rfind) of a module that
\* does not hold the word yet
AddRepositoryUrl(updated_module, ecr_data_source_name) ==
    LET last_brace == Greatest({k \in 1..Len(updated_module) : updated_module[k] = "}"})
    IN  IF MentionsRepositoryUrl(updated_module) \/ last_brace <= 1
        THEN updated_module
        ELSE Slice(updated_module, 1, last_brace - 1)
             \o RepositoryUrl(ecr_data_source_name)
             \o Slice(updated_module, last_brace, Len(updated_module))

\* the loop over re.finditer(module_start_pattern, text) from index i on: it
\* returns at the first spring-boot module
RECURSIVE SpringBootFrom(_, _, _)
SpringBootFrom(t, i, ecr_data_source_name) ==
    LET k == Least({j \in i..Len(t) : HeaderAt(t, j).brace # 0})
        end_pos == MatchingBrace(t, HeaderAt(t, k).brace)
        module_block == Slice(t, k, end_pos)
        updated_module ==
            AddRepositoryUrl(RemoveDatadogTags(RemoveDockerImage(module_block, 1)),
                             ecr_data_source_name)
    IN  IF k = 0 THEN Returned(t)
        ELSE IF end_pos = 0 \/ ~MentionsSpringBoot(module_block)
             THEN SpringBootFrom(t, HeaderAt(t, k).brace + 1, ecr_data_source_name)
        ELSE Returned(Replace(t, module_block, updated_module))

update_spring_boot_service_module(terraform_config, ecr_data_source_name) ==
    SpringBootFrom(terraform_config, 1, ecr_data_source_name)

\* ------------------------------------------------------------------------
\* update_provider_versions
\* ------------------------------------------------------------------------
\* re.search(r"required_providers\s+{", text): the index of the brace of the
\* first match, 0 for no match
ProvidersBraceAt(t, i) ==
    LET b == SkipSpace(t, i + 1)
    IN  IF /\ i <= Len(t) /\ t[i] = "required_providers"
           /\ b > i + 1 /\ b <= Len(t) /\ t[b] = "{"
        THEN b ELSE 0

ProvidersStart(t) == Least({i \in 1..Len(t) : ProvidersBraceAt(t, i) # 0})

\* (NAME\s*=\s*{.*?version\s*=\s*)"[^"]*" at index i, re.DOTALL: the lazy
\* .*? runs to the first `version = "` behind the brace, whatever lies between
ProviderPatternAt(t, i, provider_name) ==
    LET e == SkipSpace(t, i + Len(provider_name))
        b == SkipSpace(t, e + 1)
        v == Least({j \in (b + 1)..Len(t) :
                      /\ t[j] = "version"
                      /\ SkipSpace(t, j + 1) <= Len(t)
                      /\ t[SkipSpace(t, j + 1)] = "="
                      /\ SkipSpace(t, SkipSpace(t, j + 1) + 1) <= Len(t)
                      /\ t[SkipSpace(t, SkipSpace(t, j + 1) + 1)] = Q
                      /\ Find(t, Q, SkipSpace(t, SkipSpace(t, j + 1) + 1) + 1) # 0})
        open == SkipSpace(t, SkipSpace(t, v + 1) + 1)
    IN  IF /\ StartsWithAt(t, i, provider_name)
           /\ e <= Len(t) /\ t[e] = "="
           /\ b <= Len(t) /\ t[b] = "{"
           /\ v # 0
        THEN [ok |-> TRUE, open |-> open, close |-> Find(t, Q, open + 1)]
        ELSE [ok |-> FALSE]

\* re.sub(provider_pattern, r'\1"<new_version>"', block_text, flags=re.DOTALL)
\* from index i on
RECURSIVE SubProvider(_, _, _, _)
SubProvider(t, i, provider_name, new_version) ==
    LET k == Least({j \in i..Len(t) : ProviderPatternAt(t, j, provider_name).ok})
        m == ProviderPatternAt(t, k, provider_name)
    IN  IF k = 0 THEN Slice(t, i, Len(t))
        ELSE Slice(t, i, m.open) \o new_version \o <<Q>>
             \o SubProvider(t, m.close + 1, provider_name, new_version)

\* the loop over target_providers.items() on block_text
RECURSIVE UpdateProviders(_, _)
UpdateProviders(block_text, target_providers) ==
    IF target_providers = <<>> THEN block_text
    ELSE UpdateProviders(SubProvider(block_text, 1, Head(target_providers).name,
                                     Head(target_providers).version),
                         Tail(target_providers))

\* one entry of the synthesized block
ProviderEntry(p) ==
    <<SP, SP, SP, SP>> \o p.name \o <<SP, "=", SP, "{", NL>>
    \o <<SP, SP, SP, SP, SP, SP, "version", SP, "=", SP, Q>> \o p.version \o <<Q, NL>>
    \o <<SP, SP, SP, SP, "}", NL>>

\* a block that holds an entry for the first provider of targets only
ProviderEntriesFirstOnly(target_providers) ==
    IF target_providers = <<>> THEN <<>>
    ELSE ProviderEntry(Head(target_providers))

\* the entries of the synthesized block, in the order of target_providers
RECURSIVE ProviderEntries(_)
ProviderEntries(target_providers) ==
    IF target_providers = <<>> THEN <<>>
    ELSE ProviderEntry(Head(target_providers)) \o ProviderEntries(Tail(target_providers))

\* providers_text
ProvidersText(target_providers) ==
    <<"terraform", SP, "{", NL, SP, SP, "required_providers", SP, "{", NL>>
    \o ProviderEntries(target_providers)
    \o <<SP, SP, "}", NL, "}", NL>>

update_provider_versions(terraform_config, target_providers) ==
    LET block_start == ProvidersStart(terraform_config)
        start_pos == ProvidersBraceAt(terraform_config, block_start)
        end_pos == MatchingBrace(terraform_config, start_pos)
        full_block == Slice(terraform_config, block_start, end_pos)
    IN  IF block_start = 0
        THEN Returned(ProvidersText(target_providers) \o terraform_config)
        ELSE IF end_pos = 0 THEN Returned(terraform_config)
        ELSE Returned(Replace(terraform_config, full_block,
                              UpdateProviders(full_block, target_providers)))

\* ------------------------------------------------------------------------
\* add_data_source
\* ------------------------------------------------------------------------
\* the loop over variables.items(): one line `  <name> = "<value>"` each
RECURSIVE DataAssignments(_)
DataAssignments(variables) ==
    IF variables = <<>> THEN <<>>
    ELSE <<SP, SP>> \o Head(variables)[1] \o <<SP, "=", SP, Q>>
         \o Head(variables)[2] \o <<Q, NL>>
         \o DataAssignments(Tail(variables))

add_data_source(terraform_config, resource, name, variables) ==
    LET data_block ==
            <<"data", SP, Q>> \o resource \o <<Q, SP, Q>> \o name \o <<Q, SP, "{", NL>>
            \o DataAssignments(variables)
            \o <<"}", NL>>
    IN  Returned(terraform_config \o <<NL>> \o data_block)

\* ------------------------------------------------------------------------
\* Folder scans: find_provider, find_account_id and get_parameter
\* ------------------------------------------------------------------------
\* the words of the model's texts that end with the word `name`: a pattern
\* that begins with a name has no word boundary before it
EndsWith(w, name) ==
    \/ w = name
    \/ <<w, name>> \in {<<"required_version", "version">>,
                        <<"metadata", "data">>,
                        <<"long long line with a lot of data", "data">>}

\* NAME\s*=\s*"([^"]*)" anchored at the word j that ends with NAME: the
\* group and the index of the closing quote
QuotedAttrAt(t, j, name) ==
    LET e == SkipSpace(t, j + 1)
        o == SkipSpace(t, e + 1)
        c == Find(t, Q, o + 1)
    IN  IF /\ j >= 1 /\ j <= Len(t) /\ EndsWith(t[j], name)
           /\ e <= Len(t) /\ t[e] = "="
           /\ o <= Len(t) /\ t[o] = Q
           /\ c # 0
        THEN [ok |-> TRUE, group |-> Slice(t, o + 1, c - 1), last |-> c]
        ELSE [ok |-> FALSE, group |-> <<>>, last |-> 0]

\* re.search(NAME\s*=\s*"([^"]*)", block): group 1 of the first match, as
\* [found, value]; found is FALSE where the code gives None
FirstQuotedAttr(block, name) ==
    LET k == Least({j \in 1..Len(block) : QuotedAttrAt(block, j, name).ok})
    IN  IF k = 0 THEN [found |-> FALSE, value |-> <<>>]
        ELSE [found |-> TRUE, value |-> QuotedAttrAt(block, k, name).group]

\* re.search(TARGET\s*=\s*{, content): the index of the brace of the first
\* match, 0 for no match
ProviderBraceIn(content, target_provider) ==
    LET Brace(i) == SkipSpace(content, SkipSpace(content, i + 1) + 1)
        k == Least({i \in 1..Len(content) :
                      /\ EndsWith(content[i], target_provider)
                      /\ SkipSpace(content, i + 1) <= Len(content)
                      /\ content[SkipSpace(content, i + 1)] = "="
                      /\ Brace(i) <= Len(content)
                      /\ content[Brace(i)] = "{"})
    IN  IF k = 0 THEN 0 ELSE Brace(k)

\* the loop over the files from file f on; a file whose provider block is
\* not closed is passed over
RECURSIVE FindProviderIn(_, _, _)
FindProviderIn(files, f, target_provider) ==
    IF f > Len(files) THEN NotFound
    ELSE LET content == files[f].content
             start_pos == ProviderBraceIn(content, target_provider)
             end_pos == MatchingBrace(content, start_pos)
             provider_block == Slice(content, start_pos + 1, end_pos - 1)
         IN  IF start_pos = 0 \/ end_pos = 0
             THEN FindProviderIn(files, f + 1, target_provider)
             ELSE [found |-> TRUE, name |-> target_provider,
                   version |-> FirstQuotedAttr(provider_block, "version"),
                   source |-> FirstQuotedAttr(provider_block, "source"),
                   file |-> files[f].file_path]

find_provider(target_provider, files) == FindProviderIn(files, 1, target_provider)

\* the class \d+ on the words of the model's texts
IsDigits(w) == w \in {"123456789012", "42", "2"}

\* AccountIdIn that takes the first bucket name, whatever its form
AccountIdInAnyBucket(content) ==
    LET k == Least({j \in 1..Len(content) : QuotedAttrAt(content, j, "bucket").ok})
    IN  IF k = 0 THEN <<>> ELSE <<QuotedAttrAt(content, k, "bucket").group[1]>>

\* re.search(bucket\s*=\s*"(\d+)-[^"]*", content): group 1 of the first
\* match, <<>> for no match
AccountIdIn(content) ==
    LET k == Least({j \in 1..Len(content) :
                      /\ QuotedAttrAt(content, j, "bucket").ok
                      /\ Len(QuotedAttrAt(content, j, "bucket").group) >= 2
                      /\ IsDigits(QuotedAttrAt(content, j, "bucket").group[1])
                      /\ QuotedAttrAt(content, j, "bucket").group[2] = "-"})
    IN  IF k = 0 THEN <<>> ELSE <<QuotedAttrAt(content, k, "bucket").group[1]>>

AccountIdNotFound ==
    [status |-> "ValueError",
     message |-> "Could not find account ID in Terraform files in"]

find_account_id(files) ==
    LET f == Least({g \in 1..Len(files) : AccountIdIn(files[g].content) # <<>>})
    IN  IF f = 0 THEN AccountIdNotFound
        ELSE [status |-> "ok", value |-> AccountIdIn(files[f].content)]

\* (?:resource|data)\s+"TYPE"\s+"[^"]+"\s+{[^}]*?PARAM\s*=\s*"([^"]*)"[^}]*}
\* anchored at i, re.DOTALL: the lazy [^}]*? reaches the first PARAM = "..."
\* that no closing brace separates from the opening one, and the greedy
\* [^}]* ends at the first closing brace behind the value
ResourcePatternAt(t, i, type_, parameter) ==
    LET w  == SkipSpace(t, i + 1)
        s  == SkipSpace(t, w + 3)
        q2 == Find(t, Q, s + 1)
        b  == SkipSpace(t, q2 + 1)
        stop == Find(t, "}", b + 1)
        j  == Least({k \in (b + 1)..(stop - 1) : QuotedAttrAt(t, k, parameter).ok})
        a  == QuotedAttrAt(t, j, parameter)
    IN  IF /\ i <= Len(t)
           /\ (EndsWith(t[i], "resource") \/ EndsWith(t[i], "data"))
           /\ w > i + 1
           /\ StartsWithAt(t, w, <<Q, type_, Q>>)
           /\ s > w + 3 /\ s <= Len(t) /\ t[s] = Q
           /\ q2 > s + 1
           /\ b > q2 + 1 /\ b <= Len(t) /\ t[b] = "{"
           /\ stop # 0
           /\ j # 0
           /\ Find(t, "}", a.last + 1) # 0
        THEN [ok |-> TRUE, group |-> a.group, last |-> Find(t, "}", a.last + 1)]
        ELSE [ok |-> FALSE, group |-> <<>>, last |-> 0]

\* match.group(1) for the matches of re.finditer(resource_pattern, content)
\* from index i on
RECURSIVE ParameterValues(_, _, _, _)
ParameterValues(content, i, type_, parameter) ==
    LET k == Least({j \in i..Len(content) :
                      ResourcePatternAt(content, j, type_, parameter).ok})
        m == ResourcePatternAt(content, k, type_, parameter)
    IN  IF k = 0 THEN <<>>
        ELSE <<m.group>> \o ParameterValues(content, m.last + 1, type_, parameter)

\* `".terraform" in str(tf_file)`, a path being the sequence of its parts
InTerraformDir(file_path) == Contains(file_path, ".terraform")

\* the loop over the files from file f on
RECURSIVE ValuesIn(_, _, _, _)
ValuesIn(files, f, type_, parameter) ==
    IF f > Len(files) THEN <<>>
    ELSE (IF InTerraformDir(files[f].file_path) THEN <<>>
          ELSE ParameterValues(files[f].content, 1, type_, parameter))
         \o ValuesIn(files, f + 1, type_, parameter)

ParameterNotFound ==
    [status |-> "NotFoundError", message |-> "Could not find parameter"]

get_parameter(type_, parameter, files) ==
    LET values == ValuesIn(files, 1, type_, parameter)
    IN  IF Len(values) = 0 THEN ParameterNotFound
        ELSE [status |-> "ok", values |-> values]

\* ------------------------------------------------------------------------
\* Application layer: the file handler
\* ------------------------------------------------------------------------
\* the index of the file at `path` in a sequence of files, 0 when there is
\* none: FileHandler.file_exists
FileAt(files, path) ==
    Least({f \in 1..Len(files) : files[f].file_path = path})

\* FileHandler.read_file: what the file at `path` holds; a file that is not
\* there has no content, and the read of it raises (ReadFile)
Content(files, path) ==
    IF FileAt(files, path) = 0 THEN <<>> ELSE files[FileAt(files, path)].content

\* FileHandler.overwrite_file and create_file: open(path, "w")
Written(files, path, content) ==
    IF FileAt(files, path) = 0
    THEN Append(files, [file_path |-> path, content |-> content])
    ELSE [files EXCEPT ![FileAt(files, path)].content = content]

\* the record of a call of the file handler
Call(name, path, content) == [call |-> name, path |-> path, content |-> content]

\* how a run of the application layer ends: the files and the calls made
Done(files, made) == [status |-> "ok", folder |-> files, calls |-> made]
Raised(error, files, made) == [status |-> error, folder |-> files, calls |-> made]

\* ------------------------------------------------------------------------
\* DeploymentMigration.ensure_cache_in_gitignore
\* ------------------------------------------------------------------------
gitignore_path == <<".gitignore">>
cache_entry == <<".vydev-cli-cache.json">>

\* InLines that tests `line in content`
InText(line, content) ==
    \E a \in 1..Len(content) : StartsWithAt(content, a, line)

\* `line in content.split("\n")` for a line without newline
InLines(line, content) ==
    \E a \in 1..Len(content) :
        /\ StartsWithAt(content, a, line)
        /\ (a = 1 \/ content[a - 1] = NL)
        /\ (a + Len(line) > Len(content) \/ content[a + Len(line)] = NL)

ensure_cache_in_gitignore(files) ==
    LET exists == [call |-> "file_exists", path |-> gitignore_path,
                   content |-> FileAt(files, gitignore_path) # 0]
        existing_content == Content(files, gitignore_path)
        read == Call("read_file", gitignore_path, existing_content)
        completed == IF existing_content # <<>> /\ Last(existing_content) # NL
                     THEN existing_content \o <<NL>> ELSE existing_content
        new_content == completed \o cache_entry \o <<NL>>
    IN  IF FileAt(files, gitignore_path) = 0
        THEN Done(Written(files, gitignore_path, cache_entry \o <<NL>>),
                  <<exists, Call("create_file", gitignore_path, cache_entry \o <<NL>>)>>)
        ELSE IF InLines(cache_entry, existing_content)
        THEN Done(files, <<exists, read>>)
        ELSE Done(Written(files, gitignore_path, new_content),
                  <<exists, read, Call("overwrite_file", gitignore_path, new_content)>>)

\* ------------------------------------------------------------------------
\* Input texts: configuration files assembled from blocks
\* ------------------------------------------------------------------------
Example == <<"example/module">>
ExampleSub == <<"example/module", "/sub">>

\* the module name of the i-th block of a file: names are unique in a file
ModuleNames == <<"alpha", "beta", "gamma", "delta", "omega">>

Str(v) == <<Q>> \o v \o <<Q>>
Indent == <<SP, SP>>
Attr(name, value) == Indent \o <<name, SP, "=", SP>> \o value \o <<NL>>
Header(n) == <<"module", SP, Q, n, Q, SP, "{", NL>>
Close == <<"}", NL>>

\* a nested object attribute whose string value holds an interpolation
Nested(name) ==
    Indent \o <<name, SP, "=", SP, "{", NL>>
    \o Indent \o Attr("key", Str(<<"$", "{", "var.", "env", "}">>))
    \o Indent \o <<"}", NL>>

\* an lb_listeners array of one object that holds a nested conditions array
\* with an interpolation; `first` is what the object begins with
Listeners(first) ==
    Indent \o <<"lb_listeners", SP, "=", SP, "[", "{", NL>>
    \o first
    \o Indent \o Attr("listener_arn", Str(<<"arn">>))
    \o Indent \o Indent \o <<"conditions", SP, "=", SP, "[", NL>>
    \o Indent \o Indent \o Indent \o <<"{", NL>>
    \o Indent \o Indent \o Indent
    \o Attr("path_pattern", Str(<<"/", "$", "{", "local.base_path", "}", "/*">>))
    \o Indent \o Indent \o Indent \o <<"}", "]", NL>>
    \o Indent \o <<"}", "]", NL>>

\* data "<type>" "<name>" { name = "<value>" }
Data(type, n, value) ==
    <<"data", SP, Q, type, Q, SP, Q, n, Q, SP, "{", NL>>
    \o Attr("name", Str(value))
    \o Close

\* an ECS-service module whose image attribute stands between two others
ImageModule(n, source, image) ==
    Header(n)
    \o Attr("source", Str(source \o RefMark \o <<"2.0.0-beta1">>))
    \o Attr("existing_var", Str(<<"existing_value">>))
    \o Attr("image", image)
    \o Attr("another_existing_var", Str(<<"existing_value">>))
    \o Close

\* the module sources that the application layer names
OidcSource == <<"github.com/nsbno/terraform-aws-github-oidc">>
LoadbalancerSource == <<"github.com/nsbno/terraform-aws-loadbalancer">>
LambdaSource == <<"github.com/nsbno/terraform-aws-lambda">>
MetadataSource == <<"github.com/nsbno/terraform-aws-account-metadata">>

SpringBootSource ==
    <<"github.com/nsbno/terraform-digitalekanaler-modules//", "spring-boot-service">>

\* a datadog_tags block whose values hold an interpolation and a nested block
DatadogTags ==
    Indent \o <<"datadog_tags", SP, "=", SP, "{", NL>>
    \o Indent \o Attr("service", Str(<<"$", "{", "local.name", "}">>))
    \o Indent \o Nested("extra")
    \o Indent \o <<"}", NL>>

\* a spring-boot-service module with the given attributes after its name
SpringBoot(n, attrs) ==
    Header(n)
    \o Attr("source", Str(SpringBootSource \o RefMark \o <<"1.0.0">>))
    \o Attr("name", Str(<<"app">>))
    \o attrs
    \o Close

\* an entry of a required_providers block: its attribute lines between braces
Provider(name, attrs) ==
    Indent \o Indent \o <<name, SP, "=", SP, "{", NL>>
    \o attrs
    \o Indent \o Indent \o <<"}", NL>>

ProviderAttr(name, value) == Indent \o Indent \o Attr(name, value)

\* terraform { required_providers { <entries> } }
Terraform(entries) ==
    <<"terraform", SP, "{", NL>>
    \o Indent \o <<"required_providers", SP, "{", NL>>
    \o entries
    \o Indent \o <<"}", NL>>
    \o Close

AwsEntry ==
    Provider("aws", ProviderAttr("source", Str(<<"hashicorp/aws">>))
                    \o ProviderAttr("version", Str(<<"~> 4.0.0">>)))

VyEntry ==
    Provider("vy", ProviderAttr("source", Str(<<"nsbno/vy">>))
                   \o ProviderAttr("version", Str(<<"0.9.0">>)))

\* the kinds of block that hold a required_providers block
ProviderBlockKinds == {"tf_aws", "tf_two", "tf_bare", "tf_interp", "tf_cut"}

BlockKinds ==
    {"pinned", "unpinned", "sub", "after", "before", "tight", "wide",
     "resource", "ecs", "ecs_flag", "ecs_like", "truncated",
     "lst", "lst_done", "lst_dd", "lst_like", "lst_empty", "comment",
     "tf_aws", "tf_two", "tf_bare", "tf_interp", "tf_cut", "tf_none",
     "data_vydev", "data_vy", "data_cognito", "data_deep",
     "img", "img_ref", "img_other",
     "sb", "sb_plain", "sb_done", "sb_tags",
     "ecr", "ecr_nested", "ecr_ref", "backend", "remote",
     "oidc", "lb", "meta", "ecs_before", "ecs_cut"}

Block(kind, n) ==
    CASE kind = "pinned" ->
           Header(n) \o Attr("source", Str(Example \o RefMark \o <<"1.0.0">>)) \o Close
      [] kind = "unpinned" ->
           Header(n) \o Attr("source", Str(Example)) \o Attr("count", <<"2">>) \o Close
      [] kind = "sub" ->
           Header(n) \o Attr("source", Str(ExampleSub \o RefMark \o <<"1.0.0">>)) \o Close
      [] kind = "after" ->
           Header(n) \o Attr("source", Str(Example \o RefMark \o <<"1.0.0">>))
           \o Nested("tags") \o Close
      [] kind = "before" ->
           Header(n) \o Nested("tags")
           \o Attr("source", Str(Example \o RefMark \o <<"1.0.0">>)) \o Close
      [] kind = "tight" ->
           Header(n) \o Indent \o <<"source", "=">> \o Str(Example) \o <<NL>> \o Close
      [] kind = "wide" ->
           <<"#", SP, "pinned", NL>> \o Header(n)
           \o Indent \o <<"source", SP, SP, "=", SP>>
           \o Str(Example \o RefMark \o <<"1.0.0">>) \o <<NL>> \o Close
      [] kind = "resource" ->
           <<"resource", SP, Q, "aws_s3_bucket", Q, SP, Q, n, Q, SP, "{", NL>>
           \o Attr("bucket", Str(<<"name">>)) \o Close
      [] kind = "ecs" ->
           Header(n) \o Attr("source", Str(EcsSource \o RefMark \o <<"1.0.0">>))
           \o Nested("datadog_options") \o Nested("application_container") \o Close
      [] kind = "ecs_flag" ->
           Header(n) \o Attr("source", Str(EcsSource))
           \o Attr("force_new_deployment", <<"false">>) \o Close
      [] kind = "ecs_like" ->
           Header(n)
           \o Attr("source", Str(EcsSource \o <<"-alarms">> \o RefMark \o <<"1.0.0">>))
           \o Close
      [] kind = "lst" ->
           Header(n) \o Attr("source", Str(EcsSource \o RefMark \o <<"1.0.0">>))
           \o Listeners(<<>>) \o Attr("some_other_var", Str(<<"keep">>)) \o Close
      [] kind = "lst_done" ->
           Header(n) \o Attr("source", Str(EcsSource))
           \o Listeners(Indent \o Attr("test_listener_arn", <<"local.test_arn">>))
           \o Close
      [] kind = "lst_dd" ->
           Header(n) \o Attr("source", Str(EcsSource \o RefMark \o <<"1.0.0">>))
           \o Nested("application_container") \o Nested("datadog_options")
           \o Listeners(<<>>) \o Close
      [] kind = "lst_like" ->
           Header(n)
           \o Attr("source", Str(EcsSource \o <<"-alarms">> \o RefMark \o <<"1.0.0">>))
           \o Listeners(<<>>) \o Close
      [] kind = "lst_empty" ->
           Header(n) \o Attr("source", Str(EcsSource))
           \o Attr("lb_listeners", <<"[", "]">>) \o Close
      [] kind = "comment" ->
           <<"#", SP, "end", SP, "of", SP, n, NL>>
      [] kind = "tf_aws" -> Terraform(AwsEntry)
      [] kind = "tf_two" -> Terraform(AwsEntry \o VyEntry)
      [] kind = "tf_bare" ->
           Terraform(Provider("aws", ProviderAttr("source", Str(<<"hashicorp/aws">>)))
                     \o VyEntry)
      [] kind = "tf_interp" ->
           Terraform(Provider("aws",
                        ProviderAttr("source", Str(<<"$", "{", "var.registry", "}", "/aws">>))
                        \o ProviderAttr("version", Str(<<"~> 4.0.0">>)))
                     \o VyEntry)
      [] kind = "tf_cut" ->
           <<"terraform", SP, "{", NL>>
           \o Indent \o <<"required_providers", SP, "{", NL>>
           \o AwsEntry
      [] kind = "tf_none" ->
           <<"terraform", SP, "{", NL>>
           \o Attr("required_version", Str(<<">= 1.0">>))
           \o Close
      [] kind = "data_vydev" ->
           Data("vydev_artifact_version", n, <<"$", "{", "var.", "env", "}", "-app">>)
      [] kind = "data_vy" ->
           Data("vy_artifact_version", n, <<"$", "{", "var.", "env", "}", "-app">>)
      [] kind = "data_cognito" -> Data("vydev_cognito_info", n, <<"test">>)
      [] kind = "data_deep" ->
           <<"data", SP, Q, "vy_artifact_version", Q, SP, Q, n, Q, SP, "{", NL>>
           \o Nested("filter")
           \o Close
      [] kind = "img" ->
           ImageModule(n, EcsSource, Str(<<"long long line with a lot of data">>))
      [] kind = "img_ref" -> ImageModule(n, EcsSource, <<"local.image">>)
      [] kind = "img_other" -> ImageModule(n, Example, Str(<<"nginx">>))
      [] kind = "sb" ->
           SpringBoot(n, Attr("docker_image", Str(<<"repo/app:latest">>))
                         \o DatadogTags
                         \o Attr("port", <<"8080">>))
      [] kind = "sb_plain" -> SpringBoot(n, Attr("port", <<"8080">>))
      [] kind = "sb_done" ->
           SpringBoot(n, Attr("repository_url", <<"local.repository_url">>)
                         \o Attr("docker_image", <<"local.image">>))
      [] kind = "sb_tags" -> SpringBoot(n, Nested("environment") \o DatadogTags)
      [] kind = "ecr" -> Data("aws_ecr_repository", n, <<n, "-app">>)
      [] kind = "ecr_nested" ->
           <<"resource", SP, Q, "aws_ecr_repository", Q, SP, Q, n, Q, SP, "{", NL>>
           \o Nested("tags")
           \o Attr("name", Str(<<n, "-app">>))
           \o Close
      [] kind = "ecr_ref" ->
           <<"resource", SP, Q, "aws_ecr_repository", Q, SP, Q, n, Q, SP, "{", NL>>
           \o Attr("name", <<"var.", "name">>)
           \o Close
      [] kind = "backend" ->
           <<"terraform", SP, "{", NL>>
           \o Indent \o <<"backend", SP, Q, "s3", Q, SP, "{", NL>>
           \o Indent \o Attr("bucket", Str(<<"123456789012", "-", "mybucket">>))
           \o Indent \o Attr("key", Str(<<n, "/main.tfstate">>))
           \o Indent \o <<"}", NL>>
           \o Close
      [] kind = "remote" ->
           <<"data", SP, Q, "terraform_remote_state", Q, SP, Q, n, Q, SP, "{", NL>>
           \o Attr("backend", Str(<<"s3">>))
           \o Indent \o <<"config", SP, "=", SP, "{", NL>>
           \o Indent \o Attr("bucket", Str(<<"42", "-", "state">>))
           \o Indent \o <<"}", NL>>
           \o Close
      [] kind = "oidc" ->
           Header(n) \o Attr("source", Str(OidcSource \o RefMark \o <<"0.0.9">>)) \o Close
      [] kind = "lb" ->
           Header(n) \o Attr("source", Str(LoadbalancerSource \o RefMark \o <<"4.0.0">>))
           \o Close
      [] kind = "meta" ->
           Header(n) \o Attr("source", Str(MetadataSource \o RefMark \o <<"0.4.0">>))
           \o Close
      [] kind = "ecs_before" ->
           Header(n) \o Nested("tags")
           \o Attr("source", Str(EcsSource \o RefMark \o <<"1.0.0">>)) \o Close
      [] kind = "ecs_cut" ->
           Header(n) \o Attr("source", Str(EcsSource \o RefMark \o <<"1.0.0">>))
           \o Nested("tags")
      [] kind = "truncated" ->
           Header(n) \o Attr("source", Str(Example)) \o Nested("tags")

\* a file of the given kinds; only its last block may be cut off before its
\* closing brace
RECURSIVE FileOf(_, _)
FileOf(kinds, i) ==
    IF i > Len(kinds) THEN <<>>
    ELSE Block(kinds[i], ModuleNames[i]) \o FileOf(kinds, i + 1)

\* only the last block may be cut off, and a configuration has one
\* required_providers block at most
WellFormed(kinds) ==
    /\ \A i \in 1..Len(kinds) : kinds[i] \in {"truncated", "tf_cut", "ecs_cut"} => i = Len(kinds)
    /\ Cardinality({i \in 1..Len(kinds) : kinds[i] \in ProviderBlockKinds}) <= 1

KindSeqs(K) ==
    UNION {[1..n -> K] : n \in 0..MaxBlocks}

InputTexts(K) ==
    {FileOf(kinds, 1) : kinds \in {k \in KindSeqs(K) : WellFormed(k)}}

\* the paths of the files of a folder, relative to the folder, each the
\* sequence of its parts
MainTf == <<"main.tf">>
Paths == {MainTf, <<"service.tf">>, <<".terraform", "modules", "ecs", "main.tf">>}

\* the blocks i..j of a folder, of the given kinds
RECURSIVE BlocksOf(_, _, _)
BlocksOf(kinds, i, j) ==
    IF i > j THEN <<>>
    ELSE Block(kinds[i], ModuleNames[i]) \o BlocksOf(kinds, i + 1, j)

\* the last block of the run of blocks that stand in the file of block i
RunEnd(where, i) ==
    CHOOSE j \in i..Len(where) :
        /\ \A k \in i..j : where[k] = where[i]
        /\ (j = Len(where) \/ where[j + 1] # where[i])

\* the files of a folder whose i-th block is of kind kinds[i] and stands in
\* the file where[i], in the order in which the folder is listed
RECURSIVE FolderOf(_, _, _)
FolderOf(kinds, where, i) ==
    IF i > Len(kinds) THEN <<>>
    ELSE <<[file_path |-> where[i],
            content |-> BlocksOf(kinds, i, RunEnd(where, i))]>>
         \o FolderOf(kinds, where, RunEnd(where, i) + 1)

\* the blocks of a file stand together, and every file is well formed
WellFiled(kinds, where) ==
    /\ \A a, c \in 1..Len(where) :
          (a < c /\ where[a] = where[c]) => \A b \in a..c : where[b] = where[a]
    /\ \A i \in 1..Len(kinds) :
          WellFormed(SubSeq(kinds, i, RunEnd(where, i)))

Folders(K) ==
    {FolderOf(kinds, where, 1) :
        <<kinds, where>> \in
            {kw \in UNION {[1..n -> K] \X [1..n -> Paths] : n \in 0..MaxBlocks} :
                WellFiled(kw[1], kw[2])}}

\* ------------------------------------------------------------------------
\* DeploymentMigration: the upgrades of the Terraform files
\* ------------------------------------------------------------------------
\* the files are named relative to the folder the operation is given, and
\* `files` is that folder as find_module and find_provider list it
\* nothing was raised so far
Going(w) == w.status = "ok"

\* file_handler.read_file(path) after the calls of w: open(path) raises for
\* a file that is not there
ReadFile(w, path) ==
    IF FileAt(w.folder, path) = 0
    THEN Raised("FileNotFoundError", w.folder, w.calls)
    ELSE Done(w.folder,
              Append(w.calls, Call("read_file", path, Content(w.folder, path))))

\* file_handler.overwrite_file(path, <result of the engine>) after the calls
\* of w; an engine operation that raised ends the run before the call
OverwriteFile(w, path, result) ==
    IF result.status # "ok" THEN Raised(result.status, w.folder, w.calls)
    ELSE Done(Written(w.folder, path, result.text),
              Append(w.calls, Call("overwrite_file", path, result.text)))

\* read_file(path), the engine, overwrite_file(path, result): `result` is
\* what the engine makes of the content read; the run goes on from w
ReadAndOverwrite(w, path, result) ==
    IF ~Going(w) THEN w
    ELSE IF ~Going(ReadFile(w, path)) THEN ReadFile(w, path)
    ELSE OverwriteFile(ReadFile(w, path), path, result)

\* module["file_path"] if module else Path(f"{folder}/main.tf")
FilePathOf(module_info) ==
    IF module_info.found THEN module_info.file_path ELSE MainTf

\* upgrade_aws_repo_terraform_resources from the read of file_to_modify on
UpgradeOidcIn(files, terraform_folder, file_to_modify) ==
    Only({ReadAndOverwrite(
              Done(files, <<>>), file_to_modify,
              IF has_module(OidcSource, files)
              THEN Returned(update_module_versions(
                       terraform_config,
                       <<[source |-> OidcSource, version |-> <<"0.1.0">>]>>))
              ELSE add_module(terraform_config, <<"github_actions_oidc">>,
                              OidcSource, <<"0.1.0">>,
                              << << <<"environment">>,
                                    [type |-> "str",
                                     val |-> IF Contains(terraform_folder, "service")
                                             THEN <<"service">>
                                             ELSE <<"var.", "environment">>] >> >>)) :
          terraform_config \in {Content(files, file_to_modify)}})

\* upgrade_aws_repo_terraform_resources that always edits main.tf
upgrade_aws_repo_terraform_resources_in_main_tf(files, terraform_folder) ==
    UpgradeOidcIn(files, terraform_folder, MainTf)

upgrade_aws_repo_terraform_resources(files, terraform_folder) ==
    Only({UpgradeOidcIn(files, terraform_folder, FilePathOf(oidc_module)) :
          oidc_module \in {find_module(OidcSource, files)}})

\* loadbalancer_module["file_path"] is evaluated before the test of
\* `not loadbalancer_module`: subscripting None raises TypeError, and a
\* module that was found is never falsy
UpgradeLoadbalancer(files, loadbalancer_module) ==
    IF ~loadbalancer_module.found THEN Raised("TypeError", files, <<>>)
    ELSE Only({ReadAndOverwrite(
                   Done(files, <<>>), loadbalancer_module.file_path,
                   Returned(update_module_versions(
                       terraform_config,
                       <<[source |-> LoadbalancerSource,
                          version |-> <<"5.1.0">>]>>))) :
               terraform_config \in {Content(files, loadbalancer_module.file_path)}})

upgrade_aws_repo_alb_resources(files) ==
    Only({UpgradeLoadbalancer(files, loadbalancer_module) :
          loadbalancer_module \in {find_module(LoadbalancerSource, files)}})

\* the body of `for folder in folders` from `if not provider_data` on, for
\* the dictionary target_providers
UpgradeProvider(files, provider_data, target_providers) ==
    IF ~provider_data.found THEN Done(files, <<>>)
    ELSE Only({ReadAndOverwrite(
                   Done(files, <<>>), provider_data.file,
                   update_provider_versions(config, target_providers)) :
               config \in {Content(files, provider_data.file)}})

\* folders is the list of the one folder
upgrade_application_repo_terraform_provider_versions(files) ==
    Only({UpgradeProvider(
              files, provider_data,
              <<[name |-> <<"aws">>, version |-> <<">= 6.15.0, < 7.0.0">>]>>) :
          provider_data \in {find_provider("aws", files)}})

upgrade_application_repo_vy_provider_versions(files) ==
    Only({UpgradeProvider(
              files, provider_data,
              <<[name |-> <<"nsbno/vy">>, version |-> <<">= 1.1.0, < 2.0.0">>]>>) :
          provider_data \in {find_provider("vy", files)}})

\* replace_image_with_ecr_repository_url from the read of terraform_file_path on
ReplaceImageIn(files, terraform_file_path, repository_name, service_account_id) ==
    Only({ReadAndOverwrite(Done(files, <<>>), terraform_file_path,
                           replace_image_tag_on_ecs_module(without_vydev, <<"this">>)) :
          without_vydev \in
              {remove_vydev_artifact_reference(with_data_source).text :
                  with_data_source \in
                      {add_data_source(
                           terraform_config, <<"aws_ecr_repository">>, <<"this">>,
                           << << <<"name">>, repository_name >>,
                              << <<"registry_id">>, service_account_id >> >>).text :
                          terraform_config \in {Content(files, terraform_file_path)}}}})

replace_image_with_ecr_repository_url(files, repository_name, service_account_id) ==
    Only({ReplaceImageIn(files, FilePathOf(ecs_module), repository_name,
                         service_account_id) :
          ecs_module \in {find_module(EcsSource, files)}})

\* target_modules of upgrade_terraform_application_resources, in the order
\* of the dictionary
UpgradeTargets ==
    << [source |-> EcsSource, version |-> <<"3.0.0">>],
       [source |-> LambdaSource, version |-> <<"2.0.0-beta1">>],
       [source |-> SpringBootSource, version |-> <<"3.0.0">>],
       [source |-> MetadataSource, version |-> <<"0.5.0">>] >>

\* `if module_info:` of the loop over target_modules.items()
UpgradeFound(w, module_info, module_source, new_version) ==
    IF ~module_info.found THEN w
    ELSE Only({ReadAndOverwrite(
                   w, module_info.file_path,
                   Returned(update_module_versions(
                       terraform_config,
                       <<[source |-> module_source, version |-> new_version]>>))) :
               terraform_config \in {Content(w.folder, module_info.file_path)}})

\* one iteration of `for module_source, new_version in target_modules.items()`
UpgradeInItsFile(w, module_source, new_version) ==
    IF ~Going(w) THEN w
    ELSE Only({UpgradeFound(w, module_info, module_source, new_version) :
               module_info \in {find_module(module_source, w.folder)}})

RECURSIVE UpgradeEach(_, _)
UpgradeEach(w, targets) ==
    IF targets = <<>> THEN w
    ELSE Only({UpgradeEach(updated, Tail(targets)) :
               updated \in {UpgradeInItsFile(w, Head(targets).source,
                                             Head(targets).version)}})

\* `if not module_info:` the metadata module is added to main.tf
WithMetadata(w, module_info) ==
    IF module_info.found THEN w
    ELSE Only({ReadAndOverwrite(
                   w, MainTf,
                   add_module(main_tf_config, <<"metadata">>, MetadataSource,
                              <<"0.5.0">>, <<>>)) :
               main_tf_config \in {Content(w.folder, MainTf)}})

\* the test listener and force_new_deployment are added to the ECS file
AddListenerAndForce(w, ecs_file_path, module_name) ==
    IF ~Going(w) THEN w
    ELSE Only({ReadAndOverwrite(
                   w, ecs_file_path,
                   add_force_new_deployment_to_ecs_module(with_listener)) :
               with_listener \in
                   {add_test_listener_to_ecs_module(ecs_config, module_name).text :
                       ecs_config \in {Content(w.folder, ecs_file_path)}}})

\* ecs_module["file_path"] raises TypeError when find_module returned None
\* after has_module returned True
EcsAdditionsIn(w, ecs_module, module_info) ==
    IF ~ecs_module.found THEN Raised("TypeError", w.folder, w.calls)
    ELSE Only({AddListenerAndForce(
                   with_metadata, ecs_module.file_path,
                   IF module_info.found THEN module_info.name ELSE <<"metadata">>) :
               with_metadata \in {WithMetadata(w, module_info)}})

\* `# Handle ECS-specific additions`
EcsAdditions(w) ==
    IF ~Going(w) \/ ~has_module(EcsSource, w.folder) THEN w
    ELSE Only({EcsAdditionsIn(w, ecs_module, module_info) :
               ecs_module \in {find_module(EcsSource, w.folder)},
               module_info \in {find_module(MetadataSource, w.folder)}})

SpringBootUpdatesIn(w, spring_boot_module) ==
    IF ~spring_boot_module.found THEN Raised("TypeError", w.folder, w.calls)
    ELSE Only({ReadAndOverwrite(
                   w, spring_boot_module.file_path,
                   update_spring_boot_service_module(spring_boot_config, <<"this">>)) :
               spring_boot_config \in
                   {Content(w.folder, spring_boot_module.file_path)}})

\* `# Handle Spring Boot module-specific updates for RC3`
SpringBootUpdates(w) ==
    IF ~Going(w) \/ ~has_module(SpringBootSource, w.folder) THEN w
    ELSE Only({SpringBootUpdatesIn(w, spring_boot_module) :
               spring_boot_module \in {find_module(SpringBootSource, w.folder)}})

upgrade_terraform_application_resources(files) ==
    Only({SpringBootUpdates(with_ecs) :
          with_ecs \in {EcsAdditions(upgraded) :
                           upgraded \in {UpgradeEach(Done(files, <<>>),
                                                     UpgradeTargets)}}})

\* ------------------------------------------------------------------------
\* State
\* ------------------------------------------------------------------------
NoOp == [name |-> "none"]
NoQuery == [asked |-> FALSE]
Ok == [status |-> "ok"]

InitWith(K) ==
    /\ text \in InputTexts(K)
    /\ prev = text
    /\ op = NoOp
    /\ res = Ok
    /\ found = NoQuery
    /\ steps = 0
    /\ folder = <<>>
    /\ calls = <<>>

\* ------------------------------------------------------------------------
\* Specification of the version editor
\* ------------------------------------------------------------------------
Entry(s, v) == [source |-> s, version |-> <<v>>]

TargetMaps ==
    { <<>>,
      <<Entry(Example, "2.0.0")>>,
      <<Entry(ExampleSub, "3.0.0")>>,
      <<Entry(Example \o RefMark \o <<"0.9.0">>, "2.0.0")>>,
      <<Entry(Example, "2.0.0"), Entry(ExampleSub, "3.0.0")>>,
      <<Entry(ExampleSub, "3.0.0"), Entry(Example, "2.0.0")>> }

UpdateModuleVersions(targets) ==
    /\ steps < MaxSteps
    /\ text' = update_module_versions(text, targets)
    /\ prev' = text
    /\ op' = [name |-> "update_module_versions", targets |-> targets]
    /\ res' = Ok
    /\ found' = NoQuery
    /\ steps' = steps + 1
    /\ UNCHANGED <<folder, calls>>

VersionKinds ==
    {"pinned", "unpinned", "sub", "after", "before", "tight", "wide",
     "resource", "truncated"}

InitVersions == InitWith(VersionKinds)

NextVersions == \E targets \in TargetMaps : UpdateModuleVersions(targets)

SpecVersions == InitVersions /\ [][NextVersions]_vars

\* ------------------------------------------------------------------------
\* Specification of add_module and find_module
\* ------------------------------------------------------------------------
\* the folder holds the single file main.tf
Files(t) == <<[file_path |-> "main.tf", content |-> t]>>

StrVal(v) == [type |-> "str", val |-> v]
BoolVal(b) == [type |-> "bool", val |-> b]
IntVal(n) == [type |-> "int", val |-> n]
DictVal == [type |-> "dict"]

\* no variables; one variable of every kind the serialization tells apart;
\* a nested mapping after an ordinary variable
VariableMaps ==
    { <<>>,
      << <<<<"var1">>, StrVal(<<"value1">>)>>, <<<<"var2">>, IntVal(42)>>,
         <<<<"var3">>, BoolVal(TRUE)>>, <<<<"enabled">>, BoolVal(FALSE)>>,
         <<<<"environment">>, StrVal(<<"var.", "environment">>)>>,
         <<<<"vpc_id">>, StrVal(<<"module.", "network", ".", "vpc_id">>)>> >>,
      << <<<<"var1">>, StrVal(<<"value1">>)>>, <<<<"tags">>, DictVal>> >> }

Apply(name, args, result) ==
    /\ steps < MaxSteps
    /\ text' = IF result.status = "ok" THEN result.text ELSE text
    /\ prev' = text
    /\ op' = [name |-> name] @@ args
    /\ res' = [f \in DOMAIN result \ {"text"} |-> result[f]]
    /\ found' = NoQuery
    /\ steps' = steps + 1
    /\ UNCHANGED <<folder, calls>>

AddModule(name, source, version, variables) ==
    Apply("add_module",
          [module |-> name, source |-> source, version |-> version,
           variables |-> variables],
          add_module(text, name, source, version, variables))

FindModule(source) ==
    /\ found' = [asked |-> TRUE, query |-> source] @@ find_module(source, Files(text))
    /\ UNCHANGED <<text, prev, op, res, steps, folder, calls>>

ModuleSources == {Example, ExampleSub, Example \o RefMark \o <<"0.9.0">>}

\* the (source, version) arguments of add_module: no version, a version,
\* another source, a source that already carries a version
ModuleArgs ==
    { <<Example, <<>> >>, <<Example, <<"2.0.0">> >>,
      <<ExampleSub, <<"2.0.0">> >>,
      <<Example \o RefMark \o <<"0.9.0">>, <<"2.0.0">> >> }

ModuleKinds == {"pinned", "sub", "before", "tight", "resource", "truncated"}

InitModules == InitWith(ModuleKinds)

NextModules ==
    \/ \E args \in ModuleArgs, variables \in VariableMaps :
           AddModule(<<"metadata">>, args[1], args[2], variables)
    \/ \E source \in ModuleSources : FindModule(source)

SpecModules == InitModules /\ [][NextModules]_vars

\* ------------------------------------------------------------------------
\* Specification of add_variable and add_force_new_deployment_to_ecs_module
\* ------------------------------------------------------------------------
AddVariable(target_module, variables) ==
    Apply("add_variable",
          [target_module |-> target_module, variables |-> variables],
          add_variable(text, target_module, variables))

AddForceNewDeployment ==
    Apply("add_force_new_deployment_to_ecs_module", << >>,
          add_force_new_deployment_to_ecs_module(text))

VariableKinds ==
    {"pinned", "after", "before", "ecs", "ecs_flag", "ecs_like", "resource", "truncated"}

InitVariables == InitWith(VariableKinds)

NextVariables ==
    \/ \E target_module \in {<<"alpha">>, <<"beta">>, <<"missing">>},
          variables \in VariableMaps :
           AddVariable(target_module, variables)
    \/ AddForceNewDeployment

SpecVariables == InitVariables /\ [][NextVariables]_vars

\* ------------------------------------------------------------------------
\* Specification of add_test_listener_to_ecs_module
\* ------------------------------------------------------------------------
AddTestListener(metadata_module_name) ==
    Apply("add_test_listener_to_ecs_module",
          [metadata_module_name |-> metadata_module_name],
          add_test_listener_to_ecs_module(text, metadata_module_name))

ListenerKinds ==
    {"lst", "lst_done", "lst_dd", "lst_like", "lst_empty", "ecs", "pinned",
     "resource", "comment"}

InitListener == InitWith(ListenerKinds)

NextListener == \E name \in {<<"account_metadata">>} : AddTestListener(name)

SpecListener == InitListener /\ [][NextListener]_vars

\* ------------------------------------------------------------------------
\* Specification of update_provider_versions
\* ------------------------------------------------------------------------
Constraint(n, v) == [name |-> <<n>>, version |-> <<v>>]

ProviderMaps ==
    { <<>>,
      <<Constraint("aws", "~> 6.4.0")>>,
      <<Constraint("google", "5.0.0")>>,
      <<Constraint("aws", "~> 6.4.0"), Constraint("vy", ">= 1.1.0, < 2.0.0")>>,
      <<Constraint("vy", ">= 1.1.0, < 2.0.0"), Constraint("aws", "~> 6.4.0")>> }

UpdateProviderVersions(target_providers) ==
    Apply("update_provider_versions", [target_providers |-> target_providers],
          update_provider_versions(text, target_providers))

ProviderKinds ==
    {"tf_aws", "tf_two", "tf_bare", "tf_interp", "tf_cut", "tf_none", "pinned",
     "comment"}

InitProviders == InitWith(ProviderKinds)

NextProviders ==
    \E target_providers \in ProviderMaps : UpdateProviderVersions(target_providers)

SpecProviders == InitProviders /\ [][NextProviders]_vars

\* ------------------------------------------------------------------------
\* Specification of the artifact editors: the legacy data source is removed
\* and the image of the ECS-service module is replaced
\* ------------------------------------------------------------------------
RemoveVydevArtifactReference ==
    Apply("remove_vydev_artifact_reference", << >>,
          remove_vydev_artifact_reference(text))

ReplaceImageTagOnEcsModule(vy_ecs_image_data_source_name) ==
    Apply("replace_image_tag_on_ecs_module",
          [vy_ecs_image_data_source_name |-> vy_ecs_image_data_source_name],
          replace_image_tag_on_ecs_module(text, vy_ecs_image_data_source_name))

ArtifactKinds ==
    {"data_vydev", "data_vy", "data_cognito", "data_deep", "img", "img_ref",
     "img_other", "ecs", "comment", "truncated"}

InitArtifacts == InitWith(ArtifactKinds)

NextArtifacts ==
    \/ RemoveVydevArtifactReference
    \/ \E n \in {<<"this">>} : ReplaceImageTagOnEcsModule(n)

SpecArtifacts == InitArtifacts /\ [][NextArtifacts]_vars

\* ------------------------------------------------------------------------
\* Specification of update_spring_boot_service_module
\* ------------------------------------------------------------------------
UpdateSpringBootServiceModule(ecr_data_source_name) ==
    Apply("update_spring_boot_service_module",
          [ecr_data_source_name |-> ecr_data_source_name],
          update_spring_boot_service_module(text, ecr_data_source_name))

SpringBootKinds ==
    {"sb", "sb_plain", "sb_done", "sb_tags", "pinned", "ecs", "resource",
     "comment", "truncated"}

InitSpringBoot == InitWith(SpringBootKinds)

NextSpringBoot ==
    \E ecr_data_source_name \in {<<"this">>} :
        UpdateSpringBootServiceModule(ecr_data_source_name)

SpecSpringBoot == InitSpringBoot /\ [][NextSpringBoot]_vars

\* ------------------------------------------------------------------------
\* Specification of the folder scans
\* ------------------------------------------------------------------------
InitFolder(K) ==
    /\ text = <<>>
    /\ prev = <<>>
    /\ op = NoOp
    /\ res = Ok
    /\ found = NoQuery
    /\ steps = 0
    /\ folder \in Folders(K)
    /\ calls = <<>>

\* a scan reads the folder and leaves it as it is
Scan(name, args, result) ==
    /\ op' = [name |-> name] @@ args
    /\ res' = result
    /\ UNCHANGED <<text, prev, found, steps, folder, calls>>

HasModule(module_source) ==
    Scan("has_module", [module_source |-> module_source],
         [status |-> "ok", value |-> has_module(module_source, folder)])

FindModuleUnder(module_source) ==
    Scan("find_module", [module_source |-> module_source],
         [status |-> "ok"] @@ find_module(module_source, folder))

FindProvider(target_provider) ==
    Scan("find_provider", [target_provider |-> target_provider],
         [status |-> "ok"] @@ find_provider(target_provider, folder))

FindAccountId ==
    Scan("find_account_id", << >>, find_account_id(folder))

GetParameter(type_, parameter) ==
    Scan("get_parameter", [type_ |-> type_, parameter |-> parameter],
         get_parameter(type_, parameter, folder))

ScanKinds ==
    {"pinned", "before", "resource", "ecr", "ecr_nested", "ecr_ref", "backend",
     "remote", "tf_two", "tf_cut"}

InitScans == InitFolder(ScanKinds)

NextScans ==
    \/ HasModule(Example)
    \/ FindModuleUnder(Example)
    \/ \E target_provider \in {"aws", "vy"} : FindProvider(target_provider)
    \/ FindAccountId
    \/ GetParameter("aws_ecr_repository", "name")

SpecScans == InitScans /\ [][NextScans]_vars

\* ------------------------------------------------------------------------
\* Specification of ensure_cache_in_gitignore
\* ------------------------------------------------------------------------
\* a run of an operation of the application layer
Run(name, args, outcome) ==
    /\ steps < MaxSteps
    /\ op' = [name |-> name] @@ args
    /\ res' = [status |-> outcome.status]
    /\ folder' = outcome.folder
    /\ calls' = outcome.calls
    /\ steps' = steps + 1
    /\ UNCHANGED <<text, prev, found>>

EnsureCacheInGitignore ==
    Run("ensure_cache_in_gitignore", << >>, ensure_cache_in_gitignore(folder))

\* the lines of the .gitignore files of the model: the entry, another entry,
\* an empty line, and lines that hold the entry without being it
GitignoreLines ==
    {cache_entry, <<"node_modules/">>, <<"*.pyc">>, <<>>, cache_entry \o <<SP>>,
     <<"#", SP>> \o cache_entry}

\* the lines i.. joined by newlines
RECURSIVE Joined(_, _)
Joined(lines, i) ==
    IF i > Len(lines) THEN <<>>
    ELSE IF i = Len(lines) THEN lines[i]
    ELSE lines[i] \o <<NL>> \o Joined(lines, i + 1)

\* up to MaxBlocks lines, with or without a newline at the end
GitignoreTexts ==
    {Joined(lines, 1) \o end :
        lines \in UNION {[1..n -> GitignoreLines] : n \in 0..MaxBlocks},
        end \in {<<>>, <<NL>>}}

\* no .gitignore, or one with a text
InitGitignore ==
    /\ text = <<>>
    /\ prev = <<>>
    /\ op = NoOp
    /\ res = Ok
    /\ found = NoQuery
    /\ steps = 0
    /\ folder \in {<<>>} \cup {<<[file_path |-> gitignore_path, content |-> t]>> :
                                  t \in GitignoreTexts}
    /\ calls = <<>>

NextGitignore == EnsureCacheInGitignore

SpecGitignore == InitGitignore /\ [][NextGitignore]_vars

\* ------------------------------------------------------------------------
\* Specification of the upgrades of the Terraform files
\* ------------------------------------------------------------------------
\* the folder the operations are given
Here == <<".">>

UpgradeAwsRepoTerraformResources ==
    Run("upgrade_aws_repo_terraform_resources", << >>,
        upgrade_aws_repo_terraform_resources(folder, Here))

UpgradeAwsRepoAlbResources ==
    Run("upgrade_aws_repo_alb_resources", << >>,
        upgrade_aws_repo_alb_resources(folder))

UpgradeTerraformProviderVersions ==
    Run("upgrade_application_repo_terraform_provider_versions", << >>,
        upgrade_application_repo_terraform_provider_versions(folder))

UpgradeVyProviderVersions ==
    Run("upgrade_application_repo_vy_provider_versions", << >>,
        upgrade_application_repo_vy_provider_versions(folder))

ReplaceImageWithEcrRepositoryUrl(repository_name, service_account_id) ==
    Run("replace_image_with_ecr_repository_url",
        [repository_name |-> repository_name,
         service_account_id |-> service_account_id],
        replace_image_with_ecr_repository_url(folder, repository_name,
                                              service_account_id))

UpgradeTerraformApplicationResources ==
    Run("upgrade_terraform_application_resources", << >>,
        upgrade_terraform_application_resources(folder))

\* a module of each source the upgrades name, an ECS-service module that
\* has_module sees and find_module does not, one that is cut off before its
\* closing brace, and the providers
UpgradeKinds ==
    {"oidc", "lb", "meta", "lst", "ecs_before", "ecs_cut", "sb", "tf_two"}

\* the folders hold main.tf, service.tf, both or neither
UpgradePaths == {MainTf, <<"service.tf">>}

UpgradeFolders ==
    {files \in Folders(UpgradeKinds) :
        \A f \in 1..Len(files) : files[f].file_path \in UpgradePaths}

InitUpgrades ==
    /\ text = <<>>
    /\ prev = <<>>
    /\ op = NoOp
    /\ res = Ok
    /\ found = NoQuery
    /\ steps = 0
    /\ folder \in UpgradeFolders
    /\ calls = <<>>

NextUpgrades ==
    \/ UpgradeAwsRepoTerraformResources
    \/ UpgradeAwsRepoAlbResources
    \/ UpgradeTerraformProviderVersions
    \/ UpgradeVyProviderVersions
    \/ ReplaceImageWithEcrRepositoryUrl(<<"my-app">>, <<"123456789012">>)
    \/ UpgradeTerraformApplicationResources

SpecUpgrades == InitUpgrades /\ [][NextUpgrades]_vars

\* the operations that write an engine result back to the file it was read
\* from, each after any other
NextWriteBack ==
    \/ UpgradeAwsRepoTerraformResources
    \/ UpgradeTerraformProviderVersions
    \/ ReplaceImageWithEcrRepositoryUrl(<<"my-app">>, <<"123456789012">>)
    \/ UpgradeTerraformApplicationResources

SpecWriteBack == InitUpgrades /\ [][NextWriteBack]_vars

\* ------------------------------------------------------------------------
\* Reading a configuration: module blocks and their source attribute
\* (the vocabulary of the properties below)
\* ------------------------------------------------------------------------
\* source\s*=\s*"([^"]*)" anchored at i, whatever the value
AnySourceAt(t, i) ==
    LET e  == SkipSpace(t, i + 1)
        w  == SkipSpace(t, e + 1)
        q2 == Find(t, Q, w + 1)
    IN  IF i > Len(t) \/ t[i] # "source" THEN [ok |-> FALSE, valFrom |-> 0, valTo |-> 0]
        ELSE IF e > Len(t) \/ t[e] # "=" THEN [ok |-> FALSE, valFrom |-> 0, valTo |-> 0]
        ELSE IF w > Len(t) \/ t[w] # Q \/ q2 = 0 THEN [ok |-> FALSE, valFrom |-> 0, valTo |-> 0]
        ELSE [ok |-> TRUE, valFrom |-> w + 1, valTo |-> q2 - 1]

\* the text with the value of every source attribute whose base is in `bases`
\* blanked out
RECURSIVE MaskSources(_, _, _)
MaskSources(t, i, bases) ==
    LET k == Least({j \in i..Len(t) :
                      /\ AnySourceAt(t, j).ok
                      /\ SplitQuery(Slice(t, AnySourceAt(t, j).valFrom,
                                          AnySourceAt(t, j).valTo)) \in bases})
        a == AnySourceAt(t, k)
    IN  IF k = 0 THEN Slice(t, i, Len(t))
        ELSE Slice(t, i, a.valFrom - 1) \o <<"*">> \o MaskSources(t, a.valTo + 1, bases)

\* braces opened minus braces closed in t[b..c]
Balance(t, b, c) ==
    Cardinality({k \in b..c : t[k] = "{"}) - Cardinality({k \in b..c : t[k] = "}"})

\* the closing brace that matches the opening brace at b: 0 when it is never
\* balanced
CloseOf(t, b) == Least({c \in b..Len(t) : t[c] = "}" /\ Balance(t, b, c) = 0})

\* index of the source attribute that stands directly in the block opened
\* at b (at depth 1), 0 when the block has none
DirectSource(t, b) ==
    Least({j \in b..CloseOf(t, b) : AnySourceAt(t, j).ok /\ Balance(t, b, j) = 1})

\* the complete module blocks of a text: header index of each
ModuleBlocks(t) ==
    {i \in 1..Len(t) : HeaderAt(t, i).brace # 0
                       /\ CloseOf(t, HeaderAt(t, i).brace) # 0}

BlockName(t, i) == Slice(t, HeaderAt(t, i).nameFrom, HeaderAt(t, i).nameTo)

\* the value of the source attribute of the module block at header i,
\* <<>> when it has none
BlockSource(t, i) ==
    LET j == DirectSource(t, HeaderAt(t, i).brace)
    IN  IF j = 0 THEN <<>>
        ELSE Slice(t, AnySourceAt(t, j).valFrom, AnySourceAt(t, j).valTo)

\* the source of the first complete module block named n, <<>> without one
SourceOf(t, n) ==
    LET S == {i \in ModuleBlocks(t) : BlockName(t, i) = n}
    IN  IF S = {} THEN <<>>
        ELSE BlockSource(t, Least(S))

Names(t) == {BlockName(t, i) : i \in ModuleBlocks(t)}

Range(s) == {s[k] : k \in 1..Len(s)}

Bases(targets) == {SplitQuery(targets[k].source) : k \in 1..Len(targets)}

Reverse(s) == [k \in 1..Len(s) |-> s[Len(s) + 1 - k]]

IsUpdate == op.name = "update_module_versions"

\* ------------------------------------------------------------------------
\* Properties of update_module_versions
\* ------------------------------------------------------------------------
\* C1: after update_module_versions(text, targets), every complete module
\* block of the input whose source base equals the base of an entry of
\* targets carries the source `<base>?ref=<version>` in the output, with or
\* without a previous suffix and wherever the attribute stands in the block.
C1_EveryMatchingModuleRewritten ==
    IsUpdate =>
        \A k \in 1..Len(op.targets) : \A i \in ModuleBlocks(prev) :
            SplitQuery(BlockSource(prev, i)) = SplitQuery(op.targets[k].source)
            => SourceOf(text, BlockName(prev, i))
                 = NewSource(SplitQuery(op.targets[k].source), op.targets[k].version)

\* C2: update_module_versions changes nothing but the quoted value of source
\* attributes whose base is a key of targets: with those values blanked out,
\* input and output are the same text (so the output is the input when no
\* source base is a key, a key that is a proper prefix included).
C2_OnlyTargetSourcesChange ==
    IsUpdate =>
        MaskSources(text, 1, Bases(op.targets)) = MaskSources(prev, 1, Bases(op.targets))

\* a run that rewrote a source written with two spaces before `=` and left
\* alone the source of another module, of which the key is a proper prefix
C2_Witness ==
    /\ IsUpdate
    /\ Bases(op.targets) = {Example}
    /\ \E n \in Names(prev) :
           /\ SourceOf(prev, n) # SourceOf(text, n)
           /\ \E i \in 1..Len(text) :
                  StartsWithAt(text, i, <<"source", SP, SP, "=", SP, Q>> \o SourceOf(text, n))
    /\ \E n \in Names(prev) :
           /\ SplitQuery(SourceOf(prev, n)) = ExampleSub
           /\ SourceOf(text, n) = SourceOf(prev, n)

\* C3: update_module_versions is idempotent: applying it again with the same
\* targets to its own output returns that output.
C3_Idempotent ==
    IsUpdate => update_module_versions(text, op.targets) = text

\* the first application changed the text
C3_Witness ==
    /\ IsUpdate
    /\ text # prev
    /\ Len(op.targets) = 2

\* C4: for two entries with distinct base sources the order of application is
\* immaterial: applying them in the opposite order gives the same text.
C4_OrderImmaterial ==
    (IsUpdate /\ Len(op.targets) = 2
       /\ SplitQuery(op.targets[1].source) # SplitQuery(op.targets[2].source))
    => text = update_module_versions(prev, Reverse(op.targets))

\* both entries rewrote a module
C4_Witness ==
    /\ IsUpdate
    /\ Len(op.targets) = 2
    /\ \A k \in 1..2 : \E n \in Names(text) :
           /\ SourceOf(text, n)
                = NewSource(SplitQuery(op.targets[k].source), op.targets[k].version)
           /\ SourceOf(prev, n) # SourceOf(text, n)

\* ------------------------------------------------------------------------
\* Vocabulary of the properties of the module editor
\* ------------------------------------------------------------------------
HasSub(t, p) == \E i \in 1..Len(t) : StartsWithAt(t, i, p)

\* the serialization rule of the specification: boolean as lowercase literal,
\* a string beginning with `module.` or `var.` bare, any other string in
\* double quotes, a number as it is
LiteralByRule(v) ==
    IF v.type = "bool" THEN <<IF v.val THEN "true" ELSE "false">>
    ELSE IF v.type = "int" THEN <<ToString(v.val)>>
    ELSE IF v.val # <<>> /\ v.val[1] \in {"module.", "var."} THEN v.val
    ELSE Str(v.val)

LineByRule(pair) ==
    <<NL, SP, SP>> \o pair[1] \o <<SP, "=", SP>> \o LiteralByRule(pair[2]) \o <<NL>>

AnyDict(variables) == \E k \in 1..Len(variables) : variables[k][2] = DictVal

\* header indices of the module declarations named n, complete or not
HeadersNamed(t, n) ==
    {i \in 1..Len(t) : HeaderAt(t, i).brace # 0 /\ BlockName(t, i) = n}

FirstOf(S) == Least(S)

\* text t with the characters ins inserted before index c
InsertBefore(t, c, ins) == Slice(t, 1, c - 1) \o ins \o Slice(t, c, Len(t))

IsAddModule == op.name = "add_module"
IsAddVariable == op.name = "add_variable"
IsForce == op.name = "add_force_new_deployment_to_ecs_module"

AskedAfterAdd ==
    /\ IsAddModule /\ res.status = "ok"
    /\ found.asked /\ found.query = op.source

C6_AddModuleAppendsBlock ==
    IsAddModule =>
        IF AnyDict(op.variables)
        THEN res.status = "NotImplementedError" /\ text = prev
        ELSE LET added == Slice(text, Len(prev) + 1, Len(text))
             IN  /\ res.status = "ok"
                 /\ Slice(text, 1, Len(prev)) = prev
                 /\ Cardinality({i \in 1..Len(added) : added[i] = "module"}) = 1
                 /\ ModuleBlocks(added) # {}
                 /\ \A i \in ModuleBlocks(added) :
                        /\ BlockName(added, i) = op.module
                        /\ CloseOf(added, HeaderAt(added, i).brace) = Len(added) - 1
                        /\ BlockSource(added, i) =
                             IF op.version = <<>> THEN op.source
                             ELSE op.source \o <<"?", "ref", "=">> \o op.version
                 /\ \A k \in 1..Len(op.variables) : HasSub(added, LineByRule(op.variables[k]))

\* a block with a quoted string, a number, both booleans and two references
\* appended to a non-empty file
C6_Witness ==
    /\ IsAddModule /\ res.status = "ok"
    /\ prev # <<>> /\ text # prev
    /\ Len(op.variables) = 6
    /\ op.version = <<>>

\* ------------------------------------------------------------------------
\* Properties of add_variable
\* ------------------------------------------------------------------------
\* C7: add_variable writes every value by the serialization rule of
\* add_module; in particular a string beginning with `module.` or `var.`
\* is written bare.
C7_AddVariableFollowsRule ==
    (IsAddVariable /\ res.status = "ok")
    => \A k \in 1..Len(op.variables) : HasSub(text, LineByRule(op.variables[k]))

\* C8: add_variable on a text with a module named T inserts before the
\* closing brace that matches T's opening brace, and nowhere else: the text
\* before that brace and the text from that brace on are unchanged.
C8_InsertionBeforeMatchingBrace ==
    (IsAddVariable /\ HeadersNamed(prev, op.target_module) # {}
       /\ ~AnyDict(op.variables))
    => LET b == HeaderAt(prev, FirstOf(HeadersNamed(prev, op.target_module))).brace
           c == CloseOf(prev, b)
           grown == Len(text) - Len(prev)
           inserted == Slice(text, c, c + grown - 1)
       IN  c # 0 =>
           /\ res.status = "ok"
           /\ grown >= 1
           /\ Slice(text, 1, c - 1) = Slice(prev, 1, c - 1)
           /\ Slice(text, c + grown, Len(text)) = Slice(prev, c, Len(prev))
           /\ ~Contains(inserted, "{") /\ ~Contains(inserted, "}")
           /\ \A k \in 1..Len(op.variables) : HasSub(inserted, op.variables[k][1])

\* variables inserted into a module that holds a nested block and is followed
\* by another module
C8_Witness ==
    /\ IsAddVariable /\ res.status = "ok"
    /\ Len(op.variables) = 6
    /\ LET b == HeaderAt(prev, FirstOf(HeadersNamed(prev, op.target_module))).brace
       IN  /\ Find(prev, "}", b) < CloseOf(prev, b)
           /\ CloseOf(prev, b) < Len(prev) - 1

\* C9: add_variable on a text with no module named target_module raises
\* NotFoundError naming that module and returns no text; so it does when the
\* opening brace of the module is never balanced before the text ends.
C9_NotFoundWhenAbsentOrUnbalanced ==
    IsAddVariable =>
        LET H == HeadersNamed(prev, op.target_module)
        IN  (H = {} \/ CloseOf(prev, HeaderAt(prev, FirstOf(H)).brace) = 0)
            => /\ res.status = "NotFoundError"
               /\ res.module = op.target_module
               /\ text = prev

\* the target is absent from a file that holds other modules
C9_Witness ==
    /\ IsAddVariable
    /\ HeadersNamed(prev, op.target_module) = {}
    /\ ModuleBlocks(prev) # {}
    /\ res.status = "NotFoundError"

\* the target's opening brace is never balanced
C9_WitnessUnbalanced ==
    /\ IsAddVariable
    /\ HeadersNamed(prev, op.target_module) # {}
    /\ CloseOf(prev, HeaderAt(prev, FirstOf(HeadersNamed(prev, op.target_module))).brace) = 0
    /\ res.status = "NotFoundError"

\* ------------------------------------------------------------------------
\* Properties of add_force_new_deployment_to_ecs_module
\* ------------------------------------------------------------------------
\* the complete module blocks with the ECS-service source
EcsBlocks(t) == {i \in ModuleBlocks(t) : SplitQuery(BlockSource(t, i)) = EcsSource}

\* the complete module blocks whose source begins with the ECS-service source
\* and goes on: another module of a longer name
EcsLike(t) ==
    {i \in ModuleBlocks(t) :
        /\ StartsWithAt(BlockSource(t, i), 1, EcsSource)
        /\ SplitQuery(BlockSource(t, i)) # EcsSource}

BlockContent(t, i) ==
    Slice(t, HeaderAt(t, i).brace + 1, CloseOf(t, HeaderAt(t, i).brace) - 1)

C11_NotFoundWithoutEcsModule ==
    (IsForce /\ EcsBlocks(prev) = {})
    => res.status = "NotFoundError" /\ text = prev

\* the part of C11 that the code keeps: no module whose source begins with
\* the ECS-service source, so NotFoundError
C11_NotFoundWithoutEcsPrefix ==
    (IsForce /\ EcsBlocks(prev) = {} /\ EcsLike(prev) = {})
    => res.status = "NotFoundError" /\ text = prev

\* ------------------------------------------------------------------------
\* Properties of add_test_listener_to_ecs_module
\* ------------------------------------------------------------------------
IsListener == op.name = "add_test_listener_to_ecs_module"

\* the complete module blocks whose source begins with the ECS-service source:
\* the blocks the operation takes for ECS-service modules
EcsPrefixed(t) == EcsBlocks(t) \cup EcsLike(t)

BlockEnd(t, i) == CloseOf(t, HeaderAt(t, i).brace)

\* the opening bracket of the lb_listeners array of block i, 0 for none
ArrayOpen(t, i) ==
    LET a == Least({j \in i..BlockEnd(t, i) : t[j] = "lb_listeners"})
    IN  IF a = 0 THEN 0 ELSE Least({j \in a..BlockEnd(t, i) : t[j] = "["})

\* the bracket that closes the array opened at b
ArrayClose(t, b) ==
    Least({c \in b..Len(t) :
             /\ t[c] = "]"
             /\ Cardinality({k \in b..c : t[k] = "["})
                  = Cardinality({k \in b..c : t[k] = "]"})})

\* the opening brace of the first object of the array of block i, 0 when the
\* block has no array or the array no object
FirstObject(t, i) ==
    LET b == ArrayOpen(t, i)
    IN  IF b = 0 THEN 0
        ELSE Least({j \in b..ArrayClose(t, b) : t[j] = "{"})

ListenerAgain ==
    add_test_listener_to_ecs_module(text, op.metadata_module_name).text

Arrays(t) == {a \in 1..Len(t) : t[a] = "lb_listeners"}

\* the array of the lb_listeners attribute at a holds test_listener_arn
ArnInArrayAt(t, a) ==
    LET b == Least({j \in a..Len(t) : t[j] = "["})
    IN  b # 0 /\ \E j \in b..ArrayClose(t, b) : t[j] = "test_listener_arn"

\* how often the ECS-service source is written in the text
EcsSourceCount(t) == Cardinality({j \in 1..Len(t) : t[j] = EcsSource[1]})

C12_WitnessTwice ==
    /\ IsListener
    /\ EcsSourceCount(prev) = 1
    /\ text # prev
    /\ ListenerAgain = text

\* C13: when the text has no module with the ECS-service source, or no such
\* module has an lb_listeners array, the operation raises nothing and returns
\* the input unchanged.
C13_SoftFailWhenAbsent ==
    (IsListener /\ \A i \in EcsBlocks(prev) : ArrayOpen(prev, i) = 0)
    => res.status = "ok" /\ text = prev

\* the part of C13 that the code keeps: no module whose source begins with
\* the ECS-service source has an array
C13_SoftFailWhenNoPrefixedArray ==
    (IsListener /\ \A i \in EcsPrefixed(prev) : ArrayOpen(prev, i) = 0)
    => res.status = "ok" /\ text = prev

\* the ECS-service modules with an array of at least one object and no
\* test_listener_arn
Pending(t) ==
    {i \in EcsBlocks(t) :
        /\ FirstObject(t, i) # 0
        /\ ~Contains(BlockContent(t, i), "test_listener_arn")}

\* C14: when the ECS-service module has an lb_listeners array with an object
\* and no test_listener_arn, the output is the input with the line
\* `test_listener_arn = module.<name>.load_balancer.https_test_listener_arn`
\* inserted directly after the opening brace of the array's first object, and
\* nothing else changed.
C14_OneInsertionAfterFirstBrace ==
    (IsListener /\ Pending(prev) # {}
       /\ (\A j \in EcsLike(prev) : j > FirstOf(Pending(prev))))
    => /\ res.status = "ok"
       /\ text = InsertBefore(prev, FirstObject(prev, FirstOf(Pending(prev))) + 1,
                               TestListenerLine(op.metadata_module_name))

\* ------------------------------------------------------------------------
\* Properties of update_provider_versions
\* ------------------------------------------------------------------------
IsProviders == op.name = "update_provider_versions"

\* the opening brace of the first required_providers block of a text, 0 when
\* the text has none
ProvidersOpen(t) ==
    LET i == Least({j \in 1..Len(t) :
                      /\ t[j] = "required_providers"
                      /\ SkipSpace(t, j + 1) <= Len(t)
                      /\ t[SkipSpace(t, j + 1)] = "{"})
    IN  IF i = 0 THEN 0 ELSE SkipSpace(t, i + 1)

\* the text holds a complete required_providers block
HasProviders(t) == ProvidersOpen(t) # 0 /\ CloseOf(t, ProvidersOpen(t)) # 0

\* the opening brace of the entry `<n> = {` that stands directly in the
\* required_providers block, 0 when the block has no such entry
ProviderOpen(t, n) ==
    LET b == ProvidersOpen(t)
        i == Least({j \in b..CloseOf(t, b) :
                      /\ t[j] = n
                      /\ Balance(t, b, j) = 1
                      /\ t[SkipSpace(t, j + 1)] = "="
                      /\ t[SkipSpace(t, SkipSpace(t, j + 1) + 1)] = "{"})
    IN  IF i = 0 THEN 0 ELSE SkipSpace(t, SkipSpace(t, i + 1) + 1)

\* the quoted value of attribute a that stands directly in the block opened
\* at b, as [ok, val]
AttrOf(t, b, a) ==
    LET i == Least({j \in b..CloseOf(t, b) :
                      /\ t[j] = a
                      /\ Balance(t, b, j) = 1
                      /\ t[SkipSpace(t, j + 1)] = "="
                      /\ t[SkipSpace(t, SkipSpace(t, j + 1) + 1)] = Q})
        o == SkipSpace(t, SkipSpace(t, i + 1) + 1)
    IN  IF i = 0 THEN [ok |-> FALSE, val |-> <<>>]
        ELSE [ok |-> TRUE, val |-> Slice(t, o + 1, Find(t, Q, o + 1) - 1)]

LineCount(t) == Cardinality({i \in 1..Len(t) : t[i] = NL})

\* the targets whose provider has an entry in the required_providers block
Named(t, target_providers) ==
    {k \in 1..Len(target_providers) :
        ProviderOpen(t, target_providers[k].name[1]) # 0}

\* the named providers whose entry has a version attribute
Versioned(t, target_providers) ==
    {k \in Named(t, target_providers) :
        AttrOf(t, ProviderOpen(t, target_providers[k].name[1]), "version").ok}

\* the entry of target k carries the requested constraint in `text`, and its
\* source attribute is the one of `prev`
ProviderUpdated(k) ==
    LET n == op.target_providers[k].name[1]
    IN  /\ ProviderOpen(text, n) # 0
        /\ AttrOf(text, ProviderOpen(text, n), "version")
             = [ok |-> TRUE, val |-> op.target_providers[k].version]
        /\ AttrOf(text, ProviderOpen(text, n), "source")
             = AttrOf(prev, ProviderOpen(prev, n), "source")

\* C15: on a text with a required_providers block, update_provider_versions
\* gives every named provider of the block that has a version the requested
\* constraint, keeps the source attribute of that provider and the number of
\* lines of the text, interpolation braces in the block's values included.
C15_NamedVersionsReplaced ==
    (IsProviders /\ HasProviders(prev))
    => /\ res.status = "ok"
       /\ LineCount(text) = LineCount(prev)
       /\ \A k \in Versioned(prev, op.target_providers) : ProviderUpdated(k)

\* the part of C15 that the code keeps: every named provider of the block
\* has a version attribute of its own
C15_NamedVersionsReplacedWhenAllVersioned ==
    (/\ IsProviders
     /\ HasProviders(prev)
     /\ Named(prev, op.target_providers) = Versioned(prev, op.target_providers))
    => /\ res.status = "ok"
       /\ LineCount(text) = LineCount(prev)
       /\ \A k \in Versioned(prev, op.target_providers) : ProviderUpdated(k)

\* two named providers are given their constraints in a block whose values
\* hold interpolation braces
C15_WitnessInterpolation ==
    /\ IsProviders
    /\ HasProviders(prev)
    /\ HasSub(prev, <<"$", "{">>)
    /\ Cardinality(Versioned(prev, op.target_providers)) = 2
    /\ text # prev

\* the entries `<n> = {` that stand directly in the required_providers block:
\* index of the name of each
ProviderNames(t) ==
    LET b == ProvidersOpen(t)
    IN  {j \in b + 1..CloseOf(t, b) :
           /\ Balance(t, b, j) = 1
           /\ ~IsSpace(t[j])
           /\ t[SkipSpace(t, j + 1)] = "="
           /\ t[SkipSpace(t, SkipSpace(t, j + 1) + 1)] = "{"}

\* the last n tokens of t
Suffix(t, n) == Slice(t, Len(t) - n + 1, Len(t))

\* C16: on a text without a required_providers block, update_provider_versions
\* returns a new terraform { required_providers { ... } } block followed by
\* the input unchanged; the block holds one entry per provider of targets,
\* with the requested version, and no other entry.
C16_SynthesizedBlockPrepended ==
    (IsProviders /\ ProvidersOpen(prev) = 0)
    => /\ res.status = "ok"
       /\ Len(text) > Len(prev)
       /\ Suffix(text, Len(prev)) = prev
       /\ StartsWithAt(text, 1, <<"terraform", SP, "{">>)
       /\ HasProviders(text)
       /\ CloseOf(text, 3) = Len(text) - Len(prev) - 1
       /\ ProvidersOpen(text) < Len(text) - Len(prev)
       /\ Cardinality(ProviderNames(text)) = Len(op.target_providers)
       /\ {text[j] : j \in ProviderNames(text)}
            = {op.target_providers[k].name[1] : k \in 1..Len(op.target_providers)}
       /\ \A k \in 1..Len(op.target_providers) :
            AttrOf(text, ProviderOpen(text, op.target_providers[k].name[1]), "version")
              = [ok |-> TRUE, val |-> op.target_providers[k].version]

\* a block with two entries is put in front of a text that holds a terraform
\* block without required_providers
C16_WitnessTwoProviders ==
    /\ IsProviders
    /\ ProvidersOpen(prev) = 0
    /\ HasSub(prev, <<"required_version">>)
    /\ Len(op.target_providers) = 2
    /\ Cardinality(ProviderNames(text)) = 2

\* ------------------------------------------------------------------------
\* Properties of remove_vydev_artifact_reference
\* ------------------------------------------------------------------------
IsRemove == op.name = "remove_vydev_artifact_reference"

\* the opening brace of the block `data "<type>" "<name>" {` that begins at i,
\* 0 when no such block begins there
DataOpen(t, i, type) ==
    LET w == SkipSpace(t, i + 1)
        n == SkipSpace(t, w + 3)
        b == SkipSpace(t, Find(t, Q, n + 1) + 1)
    IN  IF /\ t[i] = "data"
           /\ StartsWithAt(t, w, <<Q, type, Q>>)
           /\ n <= Len(t) /\ t[n] = Q
           /\ Find(t, Q, n + 1) # 0
           /\ b <= Len(t) /\ t[b] = "{"
        THEN b ELSE 0

\* the complete data blocks of a type: index of the `data` keyword of each
DataBlocks(t, type) ==
    {i \in 1..Len(t) : DataOpen(t, i, type) # 0 /\ CloseOf(t, DataOpen(t, i, type)) # 0}

\* t[i..] without its data blocks of the type, each cut from the keyword to
\* the matching closing brace
RECURSIVE WithoutData(_, _, _)
WithoutData(t, i, type) ==
    LET k == Least({j \in DataBlocks(t, type) : j >= i})
    IN  IF k = 0 THEN Slice(t, i, Len(t))
        ELSE Slice(t, i, k - 1)
             \o WithoutData(t, CloseOf(t, DataOpen(t, k, type)) + 1, type)

\* C17: remove_vydev_artifact_reference deletes every data block of type
\* vydev_artifact_version from the `data` keyword to its matching closing
\* brace, interpolation braces in its values or not, and leaves data blocks of
\* other types, module blocks and all other text as they are.
C17_LegacyBlocksRemoved ==
    IsRemove
    => /\ res.status = "ok"
       /\ text = WithoutData(prev, 1, "vydev_artifact_version")

\* what the code removes instead: the data blocks of type vy_artifact_version
\* that hold no nested block
C17_VyBlocksRemoved ==
    (/\ IsRemove
     /\ \A i \in DataBlocks(prev, "vy_artifact_version") :
          \A k \in i..CloseOf(prev, DataOpen(prev, i, "vy_artifact_version")) :
             prev[k] = "{" /\ prev[k - 1] # "$"
                => k = DataOpen(prev, i, "vy_artifact_version"))
    => /\ res.status = "ok"
       /\ text = WithoutData(prev, 1, "vy_artifact_version")

\* ------------------------------------------------------------------------
\* Properties of replace_image_tag_on_ecs_module
\* ------------------------------------------------------------------------
IsReplaceImage == op.name = "replace_image_tag_on_ecs_module"

\* the image attributes that stand directly in an ECS-service module: index of
\* the word `image` of each
EcsImages(t) ==
    {j \in 1..Len(t) :
        /\ t[j] = "image"
        /\ t[SkipSpace(t, j + 1)] = "="
        /\ \E i \in EcsBlocks(t) :
              /\ j \in HeaderAt(t, i).brace..BlockEnd(t, i)
              /\ Balance(t, HeaderAt(t, i).brace, j) = 1}

\* the first token of the line that holds index j
LineStart(t, j) ==
    LET S == {k \in 1..j : t[k] = NL}
    IN  IF S = {} THEN 1 ELSE 1 + CHOOSE k \in S : \A m \in S : m <= k

\* the last token of the value of the attribute at j: the closing quote of a
\* quoted literal, the end of the word of a bare reference
ValueEnd(t, j) ==
    LET v == SkipSpace(t, SkipSpace(t, j + 1) + 1)
    IN  IF t[v] = Q THEN Find(t, Q, v + 1)
        ELSE Least({k \in v..Len(t) : k = Len(t) \/ IsSpace(t[k + 1])})

\* t[i..] with the line of every image attribute of an ECS-service module
\* replaced by the line `line`
RECURSIVE WithImageLines(_, _, _)
WithImageLines(t, i, line) ==
    LET k == Least({j \in EcsImages(t) : j >= i})
    IN  IF k = 0 THEN Slice(t, i, Len(t))
        ELSE Slice(t, i, LineStart(t, k) - 1) \o line
             \o WithImageLines(t, ValueEnd(t, k) + 1, line)

RepositoryUrlLine(n) ==
    <<SP, SP, SP, SP, "repository_url", SP, "=", SP, "data.aws_ecr_repository.">>
    \o n \o <<".repository_url">>

\* C18: replace_image_tag_on_ecs_module(text, name) puts the line
\* `repository_url = data.aws_ecr_repository.<name>.repository_url` in the
\* place of the image attribute (quoted literal or bare reference) of the
\* ECS-service module and leaves every other line as it is: the module header,
\* the module's other attributes, the modules of other sources.
C18_ImageReplacedByRepositoryUrl ==
    IsReplaceImage
    => /\ res.status = "ok"
       /\ text = WithImageLines(prev, 1,
                     RepositoryUrlLine(op.vy_ecs_image_data_source_name))

VyEcsImageLine(n) ==
    <<SP, SP, SP, SP, "image", SP, "=", SP, "data.vy_ecs_image.">> \o n

\* what the code writes instead, on files of complete modules without
\* comments: the line `image = data.vy_ecs_image.<name>`
C18_ImageReplacedByVyEcsImage ==
    (/\ IsReplaceImage
     /\ ~Contains(prev, "#")
     /\ \A i \in 1..Len(prev) : HeaderAt(prev, i).brace # 0 => i \in ModuleBlocks(prev))
    => /\ res.status = "ok"
       /\ text = WithImageLines(prev, 1,
                     VyEcsImageLine(op.vy_ecs_image_data_source_name))

\* ------------------------------------------------------------------------
\* Properties of update_spring_boot_service_module
\* ------------------------------------------------------------------------
IsSpringBoot == op.name = "update_spring_boot_service_module"

\* the complete module blocks whose source is the spring-boot-service module
SpringBootBlocks(t) ==
    {i \in ModuleBlocks(t) : SplitQuery(BlockSource(t, i)) = SpringBootSource}

\* t without t[a..b]
Cut(t, a, b) == Slice(t, 1, a - 1) \o Slice(t, b + 1, Len(t))

\* the index of attribute a standing directly in the module block m (a text
\* that begins with the module header), 0 when the block has none
DirectAttr(m, a) ==
    Least({j \in 1..Len(m) :
             /\ m[j] = a
             /\ m[SkipSpace(m, j + 1)] = "="
             /\ Balance(m, HeaderAt(m, 1).brace, j) = 1})

\* the module block m without the line of its docker_image attribute
WithoutDockerImage(m) ==
    LET j == DirectAttr(m, "docker_image")
    IN  IF j = 0 THEN m ELSE Cut(m, LineStart(m, j), Find(m, NL, j))

\* the module block m without its datadog_tags block: its lines from the one
\* that opens it to the one that closes it
WithoutDatadogTags(m) ==
    LET j == DirectAttr(m, "datadog_tags")
        c == CloseOf(m, Find(m, "{", j))
    IN  IF j = 0 THEN m ELSE Cut(m, LineStart(m, j), Find(m, NL, c))

\* the module block m with the repository_url line before its closing brace,
\* unless the block holds repository_url already
WithRepositoryUrl(m, n) ==
    IF Contains(m, "repository_url") THEN m
    ELSE Slice(m, 1, Len(m) - 1)
         \o <<SP, SP, "repository_url", SP, "=", SP, "data.aws_ecr_repository.">>
         \o n \o <<".repository_url", NL, "}">>

SpringBootAgain ==
    update_spring_boot_service_module(text, op.ecr_data_source_name).text

C19_WitnessAlreadyPresent ==
    /\ IsSpringBoot
    /\ SpringBootBlocks(prev) # {}
    /\ Contains(BlockContent(prev, FirstOf(SpringBootBlocks(prev))), "repository_url")
    /\ text # prev
    /\ ~Contains(text, ".repository_url")

\* ------------------------------------------------------------------------
\* Properties of find_module: the reference and its variables
\* ------------------------------------------------------------------------
\* the complete module blocks whose source base is the base of the query
Sought(t, query) ==
    {i \in ModuleBlocks(t) : SplitQuery(BlockSource(t, i)) = SplitQuery(query)}

\* the attributes that stand directly in module block i with a value on their
\* own line, source left out: index of the name of each
SiblingAttrs(t, i) ==
    {j \in HeaderAt(t, i).brace..BlockEnd(t, i) :
        /\ Balance(t, HeaderAt(t, i).brace, j) = 1
        /\ ~IsSpace(t[j]) /\ t[j] # "source"
        /\ t[SkipSpace(t, j + 1)] = "="
        /\ t[SkipSpace(t, SkipSpace(t, j + 1) + 1)] \notin {"{", "["}}

\* the raw text of the value of the attribute at j: what stands between the
\* quotes of a quoted string, else the value as written up to the end of line
RawValue(t, j) ==
    LET v == SkipSpace(t, SkipSpace(t, j + 1) + 1)
    IN  IF t[v] = Q THEN Slice(t, v + 1, Find(t, Q, v + 1) - 1)
        ELSE Slice(t, v, Find(t, NL, v) - 1)

\* the value is a quoted string, a number or a boolean
PlainValue(t, j) ==
    LET v == SkipSpace(t, SkipSpace(t, j + 1) + 1)
    IN  t[v] = Q \/ (WordOf(t[v]) = t[v] /\ t[v + 1] = NL)

\* found is the reference of module block i of the text, with the raw text of
\* every attribute of attrs
RefersTo(i, attrs) ==
    /\ found.found
    /\ found.name = BlockName(text, i)
    /\ found.source = BlockSource(text, i)
    /\ found.has_version = (SplitQuery(BlockSource(text, i)) # BlockSource(text, i))
    /\ found.has_version =>
         SplitQuery(BlockSource(text, i)) \o RefMark \o found.version
           = BlockSource(text, i)
    /\ found.file_path = "main.tf"
    /\ \A j \in attrs :
         /\ text[j] \in DOMAIN found.variables
         /\ found.variables[text[j]] = RawValue(text, j)

\* C20: find_module(source, root) takes the base of `source` and returns, for
\* the first module block with that source base, its name, its full source,
\* the version after `?ref=` (none without a suffix), the raw text of every
\* sibling attribute (a quoted string without its quotes, a number or boolean
\* as written) and the path of the file; without such a module it returns
\* None.
C20_ReferenceWithRawVariables ==
    found.asked =>
        IF Sought(text, found.query) = {} THEN ~found.found
        ELSE LET i == FirstOf(Sought(text, found.query))
             IN  RefersTo(i, SiblingAttrs(text, i))

\* the part of C20 that the code keeps: every module of the text is complete,
\* the sought block holds no nested block, and the sibling values looked at
\* are the quoted strings, the numbers and the booleans
C20_ReferenceWithPlainVariables ==
    (/\ found.asked
     /\ \A i \in 1..Len(text) : HeaderAt(text, i).brace # 0 => i \in ModuleBlocks(text)
     /\ \A i \in Sought(text, found.query) :
          /\ Balance(text, HeaderAt(text, i).brace, BlockEnd(text, i) - 1) = 1
          /\ \A k \in HeaderAt(text, i).brace + 1..BlockEnd(text, i) - 1 :
               text[k] \notin {"{", "}"})
    => IF Sought(text, found.query) = {} THEN ~found.found
       ELSE LET i == FirstOf(Sought(text, found.query))
            IN  RefersTo(i, {j \in SiblingAttrs(text, i) : PlainValue(text, j)})

\* ------------------------------------------------------------------------
\* Properties of the folder scans
\* ------------------------------------------------------------------------
IsHas == op.name = "has_module"
IsFind == op.name = "find_module"

\* the files of a folder that do not lie under a .terraform directory
Visible(files) == SelectSeq(files, LAMBDA f : ".terraform" \notin Range(f.file_path))

\* a file of the folder holds a complete module block whose source has the
\* base of `query`
InFolder(files, query) ==
    \E f \in 1..Len(files) : Sought(files[f].content, query) # {}

\* C21: has_module(source, root) returns True exactly when
\* find_module(source, root) returns a reference, for every source and every
\* folder, so that a caller that tests has_module never receives None from
\* find_module.
C21_HasExactlyWhenFound ==
    IsHas => (res.value <=> find_module(op.module_source, folder).found)

\* the part of C21 that the code keeps: a reference is returned only where
\* has_module is True
C21_FoundOnlyWhenHas ==
    IsFind => (res.found => has_module(op.module_source, folder))

\* C22: find_module returns None and has_module returns False for a module
\* that occurs only in a file under a .terraform directory of the folder.
C22_CacheModulesNotReported ==
    (/\ IsHas \/ IsFind
     /\ InFolder(folder, op.module_source)
     /\ ~InFolder(Visible(folder), op.module_source))
    => /\ IsHas => ~res.value
       /\ IsFind => ~res.found

\* the part of C22 that the code keeps: get_parameter takes no value from a
\* file under a .terraform directory
C22_GetParameterSkipsCache ==
    op.name = "get_parameter"
    => res = get_parameter(op.type_, op.parameter, Visible(folder))

IsGetParameter == op.name = "get_parameter"

\* the opening brace of the block `resource "<type>" "<name>" {` or
\* `data "<type>" "<name>" {` that begins at i, 0 when no such block does
TypedOpen(t, i, type) ==
    LET w == SkipSpace(t, i + 1)
        n == SkipSpace(t, w + 3)
        b == SkipSpace(t, Find(t, Q, n + 1) + 1)
    IN  IF /\ t[i] \in {"resource", "data"}
           /\ StartsWithAt(t, w, <<Q, type, Q>>)
           /\ n <= Len(t) /\ t[n] = Q
           /\ Find(t, Q, n + 1) # 0
           /\ b <= Len(t) /\ t[b] = "{"
        THEN b ELSE 0

\* the complete resource and data blocks of a type: index of the keyword
TypedBlocks(t, type) ==
    {i \in 1..Len(t) : TypedOpen(t, i, type) # 0 /\ CloseOf(t, TypedOpen(t, i, type)) # 0}

\* the quoted values of the attribute a that stands directly in the blocks
\* of the type of t[i..], one for each block that has one, in text order
RECURSIVE Literals(_, _, _, _)
Literals(t, i, type, a) ==
    LET k == Least({j \in TypedBlocks(t, type) : j >= i})
        b == TypedOpen(t, k, type)
    IN  IF k = 0 THEN <<>>
        ELSE (IF AttrOf(t, b, a).ok THEN <<AttrOf(t, b, a).val>> ELSE <<>>)
             \o Literals(t, CloseOf(t, b) + 1, type, a)

\* the same for the files f.. of a folder, in the order of the files
RECURSIVE LiteralsIn(_, _, _, _)
LiteralsIn(files, f, type, a) ==
    IF f > Len(files) THEN <<>>
    ELSE Literals(files[f].content, 1, type, a) \o LiteralsIn(files, f + 1, type, a)

\* no block of the type holds a brace besides its own
Flat(files, type) ==
    \A f \in 1..Len(files) : \A i \in TypedBlocks(files[f].content, type) :
        LET b == TypedOpen(files[f].content, i, type)
        IN  \A k \in (b + 1)..(CloseOf(files[f].content, b) - 1) :
                files[f].content[k] \notin {"{", "}"}

\* C24: get_parameter(blockType, attributeName, root) returns, in scan order,
\* the literal value of attributeName of every resource or data block of
\* blockType in the files of root that do not lie under .terraform, one per
\* block, and raises NotFoundError where there is none; it never returns an
\* empty list.
C24_LiteralOfEveryBlock ==
    IsGetParameter
    => LET want == LiteralsIn(Visible(folder), 1, op.type_, op.parameter)
       IN  IF want = <<>> THEN res.status = "NotFoundError"
           ELSE res = [status |-> "ok", values |-> want]

\* the part of C24 that the code keeps: the blocks of the type hold no
\* nested block or interpolation
C24_LiteralOfEveryFlatBlock ==
    (IsGetParameter /\ Flat(Visible(folder), op.type_))
    => LET want == LiteralsIn(Visible(folder), 1, op.type_, op.parameter)
       IN  IF want = <<>> THEN res.status = "NotFoundError"
           ELSE res = [status |-> "ok", values |-> want]

\* and get_parameter never returns an empty list
C24_NeverEmpty ==
    IsGetParameter
    => \/ res.status = "NotFoundError"
       \/ res.status = "ok" /\ res.values # <<>>

IsAccount == op.name = "find_account_id"

\* the bucket attributes of a text whose value has the form <digits>-...:
\* index of the attribute name of each
ConventionBuckets(t) ==
    {j \in 1..Len(t) :
        /\ t[j] = "bucket"
        /\ t[SkipSpace(t, j + 1)] = "="
        /\ t[SkipSpace(t, SkipSpace(t, j + 1) + 1)] = Q
        /\ Len(RawValue(t, j)) >= 2
        /\ IsDigits(RawValue(t, j)[1])
        /\ RawValue(t, j)[2] = "-"}

\* the files of a folder that hold such a bucket name
WithBucket(files) ==
    {f \in 1..Len(files) : ConventionBuckets(files[f].content) # {}}

C25_WitnessFirstOfTwo ==
    /\ IsAccount
    /\ WithBucket(folder) = {1, 2}
    /\ res.status = "ok"
    /\ res.value # <<RawValue(folder[2].content,
                              Least(ConventionBuckets(folder[2].content)))[1]>>

\* no file holds a bucket name of the form, and the scan fails
C25_WitnessNoBucket ==
    /\ IsAccount
    /\ folder # <<>>
    /\ WithBucket(folder) = {}
    /\ res.status = "ValueError"

\* ------------------------------------------------------------------------
\* Frame of update_provider_versions
\* ------------------------------------------------------------------------
TargetNames == {op.target_providers[k].name[1] : k \in 1..Len(op.target_providers)}

\* the entry of provider n in the required_providers block, from its opening
\* brace to the matching closing brace
EntryText(t, n) == Slice(t, ProviderOpen(t, n), CloseOf(t, ProviderOpen(t, n)))

\* the entries of the providers that are not targeted are the same in `prev`
\* and `text`
OthersUntouched ==
    \A j \in ProviderNames(prev) :
        prev[j] \notin TargetNames
        => /\ ProviderOpen(text, prev[j]) # 0
           /\ EntryText(text, prev[j]) = EntryText(prev, prev[j])

\* C27: update_provider_versions leaves the entry of every provider whose
\* name is not a key of targets byte-identical, also when a targeted
\* provider's entry has no version attribute of its own.
C27_OtherProvidersUntouched ==
    (IsProviders /\ HasProviders(prev)) => OthersUntouched

\* the part of C27 that the code keeps: every targeted provider of the block
\* has a version attribute of its own
C27_OtherProvidersUntouchedWhenAllVersioned ==
    (/\ IsProviders
     /\ HasProviders(prev)
     /\ Named(prev, op.target_providers) = Versioned(prev, op.target_providers))
    => OthersUntouched

\* ------------------------------------------------------------------------
\* Properties of ensure_cache_in_gitignore
\* ------------------------------------------------------------------------
IsGitignore == op.name = "ensure_cache_in_gitignore"

\* the lines of a text that are the entry `.vydev-cli-cache.json`: index of
\* the first token of each
EntryLines(t) ==
    {a \in 1..Len(t) :
        /\ t[a] = ".vydev-cli-cache.json"
        /\ (a = 1 \/ t[a - 1] = NL)
        /\ (a = Len(t) \/ t[a + 1] = NL)}

\* the calls of the last run that write a file
Writes == {k \in 1..Len(calls) : calls[k].call \in {"create_file", "overwrite_file"}}

\* the .gitignore of the folder
Gitignore == folder[1].content

\* the file was there before the run, with the content the run read
WasThere == calls[1].content

C30_WitnessCreated == IsGitignore /\ ~WasThere /\ Writes = {2}

\* a file that holds the line among others is not written
C30_WitnessPresent ==
    /\ IsGitignore
    /\ WasThere
    /\ Writes = {}
    /\ Gitignore[1] # ".vydev-cli-cache.json"

\* ------------------------------------------------------------------------
\* The orchestration layer (C23, C26, C28, C29)
\* ------------------------------------------------------------------------
\* this step is a run of the operation `name`, started from `folder`
RunOf(name) == op'.name = name /\ steps' = steps + 1

\* the calls of the given kind among `made`, as indices
CallsOf(made, kind) == {k \in 1..Len(made) : made[k].call = kind}

\* C29 as stated: when find_module finds no terraform-aws-loadbalancer
\* module under the folder, upgrade_aws_repo_alb_resources raises
\* NotFoundError
C29_NotFoundErrorWithoutLoadbalancer ==
    [][(/\ RunOf("upgrade_aws_repo_alb_resources")
        /\ ~find_module(LoadbalancerSource, folder).found)
       => res'.status = "NotFoundError"]_vars

\* the part of C29 that holds: without the module the run reads and writes
\* nothing, and what it raises is the TypeError of subscripting None; with
\* the module the run ends without an error
C29_NothingReadOrWrittenWithoutLoadbalancer ==
    [][RunOf("upgrade_aws_repo_alb_resources")
       => IF find_module(LoadbalancerSource, folder).found
          THEN res'.status = "ok"
          ELSE /\ res'.status = "TypeError"
               /\ calls' = <<>>
               /\ folder' = folder]_vars

\* the file of the vy provider of `files`, as find_provider gives it
VyFile(files) == find_provider("vy", files).file

\* the version constraint of the vy provider in a file of the given content,
\* empty when there is none
VyVersionIn(content) ==
    LET p == find_provider("vy", <<[file_path |-> MainTf, content |-> content]>>)
    IN  IF p.found /\ p.version.found THEN p.version.value ELSE <<>>

\* C28 as stated: when find_provider finds the vy provider in the folder,
\* the content that upgrade_application_repo_vy_provider_versions writes
\* back to the provider's file has the vy constraint `>= 1.1.0, < 2.0.0`
C28_VyConstraintWritten ==
    [][(/\ RunOf("upgrade_application_repo_vy_provider_versions")
        /\ find_provider("vy", folder).found)
       => \E k \in CallsOf(calls', "overwrite_file") :
             /\ calls'[k].path = VyFile(folder)
             /\ VyVersionIn(calls'[k].content) = <<">= 1.1.0, < 2.0.0">>]_vars

\* the part of C28 that holds: a folder without the provider is neither read
\* nor written; with the provider, its file is read and written back, and
\* what is written is what was read
C28_VyFileWrittenBackAsRead ==
    [][RunOf("upgrade_application_repo_vy_provider_versions")
       => /\ res'.status = "ok"
          /\ folder' = folder
          /\ IF find_provider("vy", folder).found
             THEN calls' = <<Call("read_file", VyFile(folder),
                                  Content(folder, VyFile(folder))),
                             Call("overwrite_file", VyFile(folder),
                                  Content(folder, VyFile(folder)))>>
             ELSE calls' = <<>>]_vars

IsUpgradeOfApplication == op.name = "upgrade_terraform_application_resources"

\* C26 as stated: a run of upgrade_terraform_application_resources that
\* ends with the NotFoundError of an engine operation, or with the TypeError
\* of a find_module that returned None after has_module returned True, has
\* made no overwrite_file call
C26_NoWriteBeforeFailure ==
    (IsUpgradeOfApplication /\ res.status \in {"NotFoundError", "TypeError"})
    => CallsOf(calls, "overwrite_file") = {}

\* the operations that C23 names
WriteBackOperations ==
    {"upgrade_aws_repo_terraform_resources",
     "upgrade_terraform_application_resources",
     "replace_image_with_ecr_repository_url",
     "upgrade_application_repo_terraform_provider_versions"}

\* the folder after the first k calls of `made`, started from `files`
RECURSIVE After(_, _, _)
After(files, made, k) ==
    IF k = 0 THEN files
    ELSE IF made[k].call = "overwrite_file"
         THEN Written(After(files, made, k - 1), made[k].path, made[k].content)
    ELSE After(files, made, k - 1)

\* `content` is what Engine makes of the file at `path`, without raising
IsOutput(files, path, content, Engine(_)) ==
    /\ FileAt(files, path) # 0
    /\ LET result == Engine(Content(files, path))
       IN  result.status = "ok" /\ result.text = content

\* the file of the module of the given source, main.tf when find_module
\* finds none
FileOrMainTf(module_source, files) ==
    LET module_info == find_module(module_source, files)
    IN  IF module_info.found THEN module_info.file_path ELSE MainTf

\* the name under which the test listener refers to the metadata module
MetadataName(files) ==
    LET module_info == find_module(MetadataSource, files)
    IN  IF module_info.found THEN module_info.name ELSE <<"metadata">>

\* C23 allows the operation o to write `content` to `path` in the
\* folder `files`: the path is the file of the reference that find_module or
\* find_provider returns, main.tf standing in only for a module that is not
\* found, and the content is the engine's output for the content of that file
IsRewrite(o, files, path, content) ==
    CASE o.name = "upgrade_aws_repo_terraform_resources" ->
           /\ path = FileOrMainTf(OidcSource, files)
           /\ IsOutput(files, path, content,
                       LAMBDA c :
                          IF has_module(OidcSource, files)
                          THEN Returned(update_module_versions(
                                   c, <<Entry(OidcSource, "0.1.0")>>))
                          ELSE add_module(c, <<"github_actions_oidc">>, OidcSource,
                                          <<"0.1.0">>,
                                          << << <<"environment">>,
                                                StrVal(<<"var.", "environment">>) >> >>))
      [] o.name = "replace_image_with_ecr_repository_url" ->
           /\ path = FileOrMainTf(EcsSource, files)
           /\ IsOutput(files, path, content,
                       LAMBDA c :
                          replace_image_tag_on_ecs_module(
                              remove_vydev_artifact_reference(
                                  add_data_source(
                                      c, <<"aws_ecr_repository">>, <<"this">>,
                                      << << <<"name">>, o.repository_name >>,
                                         << <<"registry_id">>, o.service_account_id >> >>
                                  ).text).text,
                              <<"this">>))
      [] o.name = "upgrade_application_repo_terraform_provider_versions" ->
           /\ find_provider("aws", files).found
           /\ path = find_provider("aws", files).file
           /\ IsOutput(files, path, content,
                       LAMBDA c :
                          update_provider_versions(
                              c, <<Constraint("aws", ">= 6.15.0, < 7.0.0")>>))
      [] OTHER ->
           \/ \E i \in 1..Len(UpgradeTargets) :
                 LET module_info == find_module(UpgradeTargets[i].source, files)
                 IN  /\ module_info.found
                     /\ path = module_info.file_path
                     /\ IsOutput(files, path, content,
                                 LAMBDA c :
                                    Returned(update_module_versions(
                                                 c, <<UpgradeTargets[i]>>)))
           \/ /\ path = MainTf
              /\ ~find_module(MetadataSource, files).found
              /\ IsOutput(files, path, content,
                          LAMBDA c :
                             add_module(c, <<"metadata">>, MetadataSource,
                                        <<"0.5.0">>, <<>>))
           \/ LET ecs_module == find_module(EcsSource, files)
              IN  /\ ecs_module.found
                  /\ path = ecs_module.file_path
                  /\ IsOutput(files, path, content,
                              LAMBDA c :
                                 add_force_new_deployment_to_ecs_module(
                                     add_test_listener_to_ecs_module(
                                         c, MetadataName(files)).text))
           \/ LET spring_boot_module == find_module(SpringBootSource, files)
              IN  /\ spring_boot_module.found
                  /\ path = spring_boot_module.file_path
                  /\ IsOutput(files, path, content,
                              LAMBDA c :
                                 update_spring_boot_service_module(c, <<"this">>))

\* C23: in a run of one of the four operations, every overwrite_file call
\* follows a read_file call of the same path that returned what the file
\* held; the path is the file of the reference that find_module or
\* find_provider returns for the folder as it is then (main.tf only when the
\* module is not found) and the content is what the engine makes of the
\* content read from that path; the folder changes by these writes only
C23_WrittenBackWhereRead ==
    [][(steps' = steps + 1 /\ op'.name \in WriteBackOperations)
       => /\ folder' = After(folder, calls', Len(calls'))
          /\ \A k \in CallsOf(calls', "overwrite_file") :
                /\ k > 1
                /\ FileAt(After(folder, calls', k - 1), calls'[k].path) # 0
                /\ calls'[k - 1] =
                     Call("read_file", calls'[k].path,
                          Content(After(folder, calls', k - 1), calls'[k].path))
                /\ IsRewrite(op', After(folder, calls', k - 1),
                             calls'[k].path, calls'[k].content)]_vars

\* a module that lives in service.tf is updated there, next to a main.tf
\* that is not written
C23_WitnessUpdatedInServiceTf ==
    /\ op.name \in WriteBackOperations
    /\ res.status = "ok"
    /\ FileAt(folder, MainTf) # 0
    /\ \E k \in CallsOf(calls, "overwrite_file") :
          /\ calls[k].path = <<"service.tf">>
          /\ calls[k].content # calls[k - 1].content
    /\ \A k \in CallsOf(calls, "overwrite_file") : calls[k].path # MainTf

\* a module that is not found is added to main.tf, next to a service.tf
C23_WitnessAddedToMainTf ==
    /\ op.name = "upgrade_aws_repo_terraform_resources"
    /\ res.status = "ok"
    /\ FileAt(folder, <<"service.tf">>) # 0
    /\ CallsOf(calls, "overwrite_file") = {2}
    /\ calls[2].path = MainTf
    /\ HasSub(calls[2].content, OidcSource)
    /\ ~HasSub(calls[1].content, OidcSource)
====
